---- MODULE Spec2Model ----
(***************************************************************************)
(* State-machine model of the 2048 rule engine: game/board.py (Board),     *)
(* game/tile.py (Tile), the coordinates of game/constants.py and the       *)
(* animation playback of game/renderer.py.                                 *)
(*                                                                         *)
(* Tile objects live in `heap` (object identity -> fields); the board's    *)
(* dict `tiles` and the pending destination map hold object identities, so *)
(* the aliasing between the two dicts is the aliasing of the program.      *)
(* Pixel coordinates are multiples of 0.5 in the program and are kept here *)
(* in half-pixels (every coordinate is twice the program's float).         *)
(***************************************************************************)
EXTENDS Integers, Sequences, FiniteSets, TLC

VARIABLES tiles, heap, pending_new_grid, pending_map, score, history, main, view,
          score_manager, last, calls

vars == <<tiles, heap, pending_new_grid, pending_map, score, history, main, view,
          score_manager, last, calls>>

(***************************************************************************)
(* Program constants (game/constants.py).                                  *)
(***************************************************************************)
ROWS == 4
COLS == 4
WIDTH == 800
HEIGHT == 900
HEADER_HEIGHT == 100
OUTLINE_THICKNESS == 10

(***************************************************************************)
(* Bounds of the model.                                                    *)
(*   MaxSpawnCells: random.choice(empty) draws among the empty cells that  *)
(*              are among the first MaxSpawnCells cells of the grid,       *)
(*              counted outward from the corner (0, 0) in square shells.   *)
(*   MaxCalls:  the number of calls made on a board after construction.    *)
(*   MaxKeys:   the number of direction keys the game loop handles.        *)
(***************************************************************************)
MaxSpawnCells == 4
MaxCalls == 3
MaxKeys == 2

\* Python's None, for the Optional fields.
None == <<>>

GRID_TOP == HEADER_HEIGHT

GRID_HEIGHT == HEIGHT - HEADER_HEIGHT

\* RECT_WIDTH, RECT_HEIGHT in half-pixels: 2 * 187.5.
RECT_WIDTH == (2 * (WIDTH - OUTLINE_THICKNESS * (COLS + 1))) \div COLS

RECT_HEIGHT == (2 * (GRID_HEIGHT - OUTLINE_THICKNESS * (ROWS + 1))) \div ROWS

\* GRID_X[c], GRID_Y[r] in half-pixels.
GRID_X(c) == 2 * OUTLINE_THICKNESS + c * (RECT_WIDTH + 2 * OUTLINE_THICKNESS)

GRID_Y(r) == 2 * GRID_TOP + 2 * OUTLINE_THICKNESS + r * (RECT_HEIGHT + 2 * OUTLINE_THICKNESS)

RowRange == 0 .. (ROWS - 1)

ColRange == 0 .. (COLS - 1)

Directions == {"left", "right", "up", "down"}

\* Board._key: the two decimal digits "rc", read as a number.
Key(r, c) == r * 10 + c

\* The cells in row-major order, as the nested loops over range(ROWS), range(COLS).
RowMajor == [i \in 1 .. (ROWS * COLS) |-> <<(i - 1) \div COLS, (i - 1) % COLS>>]

\* The smallest object identity not in use: a newly constructed Tile.
NewId(hp) == CHOOSE i \in 1 .. (Cardinality(DOMAIN hp) + 1) :
                 i \notin DOMAIN hp /\ \A j \in 1 .. (i - 1) : j \in DOMAIN hp

\* Tile.update_pos
update_pos(t) == [t EXCEPT !.x = GRID_X(t.col), !.y = GRID_Y(t.row)]

\* Tile(value, row, col): the dataclass defaults, then __post_init__.
NewTile(value, row, col) ==
    LET t0 == [value |-> value, row |-> row, col |-> col, x |-> 0, y |-> 0,
               anim_start_x |-> None, anim_start_y |-> None,
               anim_end_x |-> None, anim_end_y |-> None]
    IN  IF t0.x = 0 /\ t0.y = 0 THEN update_pos(t0) ELSE t0

\* Tile.set_animation; an Optional[float] that is set is the 1-tuple of the float.
set_animation(t, start_row, start_col, end_row, end_col) ==
    [t EXCEPT !.anim_start_x = <<GRID_X(start_col)>>,
              !.anim_start_y = <<GRID_Y(start_row)>>,
              !.anim_end_x = <<GRID_X(end_col)>>,
              !.anim_end_y = <<GRID_Y(end_row)>>,
              !.x = GRID_X(start_col),
              !.y = GRID_Y(start_row)]

\* Tile.has_animation
has_animation(t) == t.anim_start_x /= None

\* Tile.clear_animation
clear_animation(t) ==
    [t EXCEPT !.anim_start_x = None, !.anim_start_y = None,
              !.anim_end_x = None, !.anim_end_y = None]

(***************************************************************************)
(* Board.spawn_random                                                      *)
(***************************************************************************)
\* Fault injection: `empty` holds every cell, occupied or not.
EmptyCellsAll(tls) == RowMajor

\* The list `empty`: the cells whose key is not in the dict, in row-major order.
EmptyCells(tls) == SelectSeq(RowMajor, LAMBDA p : Key(p[1], p[2]) \notin DOMAIN tls)

\* The dict and the heap after self.tiles[key] = Tile(val, r, c) for the cell p.
SpawnAt(tls, hp, p, val) ==
    LET id == NewId(hp)
        k == Key(p[1], p[2])
    IN  [tiles |-> [q \in DOMAIN tls \cup {k} |-> IF q = k THEN id ELSE tls[q]],
         heap |-> [j \in DOMAIN hp \cup {id} |->
                      IF j = id THEN NewTile(val, p[1], p[2]) ELSE hp[j]]]

\* The position of a cell counted outward from (0, 0): shell m holds the cells
\* with max(r, c) = m, its column part first.
ShellIndex(p) ==
    LET m == IF p[1] > p[2] THEN p[1] ELSE p[2]
    IN  m * m + (IF p[2] = m /\ p[1] < m THEN p[1] ELSE m + p[2])

\* Fault injection: the cell is chosen among all cells, not among the empty ones.
ChoicesAnyCell(tls) == {q \in RowRange \X ColRange : ShellIndex(q) < MaxSpawnCells}

\* The cells random.choice(empty) may return, within the bound.
Choices(tls) ==
    {p \in {q \in RowRange \X ColRange : ShellIndex(q) < MaxSpawnCells} :
        \E i \in 1 .. Len(EmptyCells(tls)) : EmptyCells(tls)[i] = p}

\* The board after tiles valued vals[cell] /= 0 are spawned, in row-major order from i on.
RECURSIVE SpawnGrid(_, _, _)
SpawnGrid(vals, i, acc) ==
    IF i > Len(RowMajor) THEN acc
    ELSE SpawnGrid(vals, i + 1,
             IF vals[RowMajor[i]] = 0 THEN acc
             ELSE SpawnAt(acc.tiles, acc.heap, RowMajor[i], vals[RowMajor[i]]))

(***************************************************************************)
(* Board.move                                                              *)
(***************************************************************************)
\* Fault injection: old_grid read with row and column swapped.
OldGridTransposed(tls, hp) ==
    [r \in RowRange |-> [c \in ColRange |->
        IF Key(c, r) \in DOMAIN tls THEN hp[tls[Key(c, r)]].value ELSE 0]]

\* old_grid: the dict's values as a ROWS x COLS grid, 0 for an absent key.
OldGrid(tls, hp) ==
    [r \in RowRange |-> [c \in ColRange |->
        IF Key(r, c) \in DOMAIN tls THEN hp[tls[Key(r, c)]].value ELSE 0]]

\* new_grid before any line is written.
ZeroGrid == [r \in RowRange |-> [c \in ColRange |-> 0]]

\* `indices` of line n: the line's cells in traversal order.
Indices(direction, n) ==
    CASE direction = "left" -> [i \in 1 .. COLS |-> <<n, i - 1>>]
      [] direction = "right" -> [i \in 1 .. COLS |-> <<n, COLS - i>>]
      [] direction = "up" -> [i \in 1 .. ROWS |-> <<i - 1, n>>]
      [] direction = "down" -> [i \in 1 .. ROWS |-> <<ROWS - i, n>>]

\* Fault injection: a tile that still carries animation data is left out of line_tiles.
LineTilesAtRest(indices, tls, hp) ==
    LET found == SelectSeq(indices, LAMBDA p :
                     /\ Key(p[1], p[2]) \in DOMAIN tls
                     /\ hp[tls[Key(p[1], p[2])]].value /= 0
                     /\ ~has_animation(hp[tls[Key(p[1], p[2])]]))
    IN  [i \in 1 .. Len(found) |-> tls[Key(found[i][1], found[i][2])]]

\* line_tiles: the tiles found along `indices`, in order.
LineTiles(indices, tls, hp) ==
    LET found == SelectSeq(indices, LAMBDA p :
                     /\ Key(p[1], p[2]) \in DOMAIN tls
                     /\ hp[tls[Key(p[1], p[2])]].value /= 0)
    IN  [i \in 1 .. Len(found) |-> tls[Key(found[i][1], found[i][2])]]

\* The test of the merge branch: the next tile exists and has cur's value.
MergeTest(line_tiles, i, hp) ==
    /\ i + 1 < Len(line_tiles)
    /\ hp[line_tiles[i + 2]].value = hp[line_tiles[i + 1]].value

\* Fault injection: a merged value merges again with an equal next tile.
MergeBranchChain(indices, line_tiles, st) ==
    LET cur == line_tiles[st.i + 1]
        nxt == line_tiles[st.i + 2]
        dest == indices[st.target_idx + 1]
        again == /\ st.i + 2 < Len(line_tiles)
                 /\ st.heap[line_tiles[st.i + 3]].value = st.heap[cur].value * 2
        h1 == [st.heap EXCEPT ![cur] =
                  set_animation(@, @.row, @.col, dest[1], dest[2])]
        h2 == [h1 EXCEPT ![nxt] =
                  set_animation(@, @.row, @.col, dest[1], dest[2])]
        h3 == IF again
              THEN [h2 EXCEPT ![line_tiles[st.i + 3]] =
                       set_animation(@, @.row, @.col, dest[1], dest[2])]
              ELSE h2
    IN  [i |-> IF again THEN st.i + 3 ELSE st.i + 2,
         target_idx |-> st.target_idx + 1,
         result_values |-> Append(st.result_values,
                               IF again THEN st.heap[cur].value * 4
                               ELSE st.heap[cur].value * 2),
         result_tiles |-> Append(st.result_tiles, cur),
         heap |-> h3,
         merges |-> IF again THEN st.merges + 2 ELSE st.merges + 1]

\* Fault injection: the merge branch advances by one tile instead of two.
MergeBranchAdvanceOne(indices, line_tiles, st) ==
    LET cur == line_tiles[st.i + 1]
        nxt == line_tiles[st.i + 2]
        dest == indices[st.target_idx + 1]
        h1 == [st.heap EXCEPT ![cur] =
                  set_animation(@, @.row, @.col, dest[1], dest[2])]
        h2 == [h1 EXCEPT ![nxt] =
                  set_animation(@, @.row, @.col, dest[1], dest[2])]
    IN  [i |-> st.i + 1,
         target_idx |-> st.target_idx + 1,
         result_values |-> Append(st.result_values, st.heap[cur].value * 2),
         result_tiles |-> Append(st.result_tiles, cur),
         heap |-> h2,
         merges |-> st.merges + 1]

\* Fault injection: the survivor keeps its value instead of doubling it.
MergeBranchNoDouble(indices, line_tiles, st) ==
    LET cur == line_tiles[st.i + 1]
        nxt == line_tiles[st.i + 2]
        dest == indices[st.target_idx + 1]
        h1 == [st.heap EXCEPT ![cur] =
                  set_animation(@, @.row, @.col, dest[1], dest[2])]
        h2 == [h1 EXCEPT ![nxt] =
                  set_animation(@, @.row, @.col, dest[1], dest[2])]
    IN  [i |-> st.i + 2,
         target_idx |-> st.target_idx + 1,
         result_values |-> Append(st.result_values, st.heap[cur].value),
         result_tiles |-> Append(st.result_tiles, cur),
         heap |-> h2,
         merges |-> st.merges + 1]

\* Fault injection: the survivor's value is doubled at once, inside move.
MergeBranchEager(indices, line_tiles, st) ==
    LET cur == line_tiles[st.i + 1]
        nxt == line_tiles[st.i + 2]
        dest == indices[st.target_idx + 1]
        h1 == [st.heap EXCEPT ![cur] =
                  [set_animation(@, @.row, @.col, dest[1], dest[2])
                      EXCEPT !.value = st.heap[cur].value * 2]]
        h2 == [h1 EXCEPT ![nxt] =
                  set_animation(@, @.row, @.col, dest[1], dest[2])]
    IN  [i |-> st.i + 2,
         target_idx |-> st.target_idx + 1,
         result_values |-> Append(st.result_values, st.heap[cur].value * 2),
         result_tiles |-> Append(st.result_tiles, cur),
         heap |-> h2,
         merges |-> st.merges + 1]

\* Fault injection: the survivor of a merge is nxt, the tile farther from the edge.
MergeBranchKeepsNext(indices, line_tiles, st) ==
    LET cur == line_tiles[st.i + 1]
        nxt == line_tiles[st.i + 2]
        dest == indices[st.target_idx + 1]
        h1 == [st.heap EXCEPT ![cur] =
                  set_animation(@, @.row, @.col, dest[1], dest[2])]
        h2 == [h1 EXCEPT ![nxt] =
                  set_animation(@, @.row, @.col, dest[1], dest[2])]
    IN  [i |-> st.i + 2,
         target_idx |-> st.target_idx + 1,
         result_values |-> Append(st.result_values, st.heap[cur].value * 2),
         result_tiles |-> Append(st.result_tiles, nxt),
         heap |-> h2,
         merges |-> st.merges + 1]

\* The merge branch: both tiles animate to indices[target_idx], cur survives.
MergeBranch(indices, line_tiles, st) ==
    LET cur == line_tiles[st.i + 1]
        nxt == line_tiles[st.i + 2]
        dest == indices[st.target_idx + 1]
        h1 == [st.heap EXCEPT ![cur] =
                  set_animation(@, @.row, @.col, dest[1], dest[2])]
        h2 == [h1 EXCEPT ![nxt] =
                  set_animation(@, @.row, @.col, dest[1], dest[2])]
    IN  [i |-> st.i + 2,
         target_idx |-> st.target_idx + 1,
         result_values |-> Append(st.result_values, st.heap[cur].value * 2),
         result_tiles |-> Append(st.result_tiles, cur),
         heap |-> h2,
         merges |-> st.merges + 1]

\* Fault injection: an unmerged tile animates to the cell counted by i, not by target_idx.
SingleBranchDestAtI(indices, line_tiles, st) ==
    LET cur == line_tiles[st.i + 1]
        dest == indices[st.i + 1]
    IN  [i |-> st.i + 1,
         target_idx |-> st.target_idx + 1,
         result_values |-> Append(st.result_values, st.heap[cur].value),
         result_tiles |-> Append(st.result_tiles, cur),
         heap |-> [st.heap EXCEPT ![cur] =
                      set_animation(@, @.row, @.col, dest[1], dest[2])],
         merges |-> st.merges]

\* The other branch: cur alone animates to indices[target_idx].
SingleBranch(indices, line_tiles, st) ==
    LET cur == line_tiles[st.i + 1]
        dest == indices[st.target_idx + 1]
    IN  [i |-> st.i + 1,
         target_idx |-> st.target_idx + 1,
         result_values |-> Append(st.result_values, st.heap[cur].value),
         result_tiles |-> Append(st.result_tiles, cur),
         heap |-> [st.heap EXCEPT ![cur] =
                      set_animation(@, @.row, @.col, dest[1], dest[2])],
         merges |-> st.merges]

\* The while loop of process_line; `merges` counts the merge branches taken.
RECURSIVE WhileLoop(_, _, _)
WhileLoop(indices, line_tiles, st) ==
    IF ~(st.i < Len(line_tiles)) THEN st
    ELSE IF MergeTest(line_tiles, st.i, st.heap)
         THEN WhileLoop(indices, line_tiles, MergeBranch(indices, line_tiles, st))
         ELSE WhileLoop(indices, line_tiles, SingleBranch(indices, line_tiles, st))

\* Pad with zeros to full length.
PadZeros(values, n) ==
    [i \in 1 .. (IF Len(values) < n THEN n ELSE Len(values)) |->
        IF i <= Len(values) THEN values[i] ELSE 0]

\* process_line: (result_values, result_tiles) and the tiles as set_animation left them.
ProcessLine(indices, tls, hp) ==
    LET line_tiles == LineTiles(indices, tls, hp)
        st == WhileLoop(indices, line_tiles,
                  [i |-> 0, target_idx |-> 0, result_values |-> <<>>,
                   result_tiles |-> <<>>, heap |-> hp, merges |-> 0])
    IN  [values |-> PadZeros(st.result_values, Len(indices)),
         tiles |-> st.result_tiles,
         heap |-> st.heap,
         merges |-> st.merges]

\* Fault injection: "right" and "down" write the values from index 0, as "left" and "up" do.
PlaceValuesFromZero(direction, n, values, grid) ==
    CASE direction \in {"left", "right"} ->
            [grid EXCEPT ![n] = [c \in ColRange |-> values[c + 1]]]
      [] direction \in {"up", "down"} ->
            [r \in RowRange |-> [grid[r] EXCEPT ![n] = values[r + 1]]]

\* The writes of `values` into line n of new_grid.
PlaceValues(direction, n, values, grid) ==
    CASE direction = "left" ->
            [grid EXCEPT ![n] = [c \in ColRange |-> values[c + 1]]]
      [] direction = "right" ->
            [grid EXCEPT ![n] = [c \in ColRange |-> values[(COLS - 1 - c) + 1]]]
      [] direction = "up" ->
            [r \in RowRange |-> [grid[r] EXCEPT ![n] = values[r + 1]]]
      [] direction = "down" ->
            [r \in RowRange |-> [grid[r] EXCEPT ![n] = values[(ROWS - 1 - r) + 1]]]

\* Fault injection: write_idx is never advanced, every survivor of the line is recorded
\* at indices[0] and the last one stays.
RecordSurvivorsAtFirst(indices, tiles_seq, dest_map) ==
    LET ks == IF tiles_seq = <<>> THEN {} ELSE {Key(indices[1][1], indices[1][2])}
    IN  [k \in DOMAIN dest_map \cup ks |->
            IF k \in ks THEN tiles_seq[Len(tiles_seq)] ELSE dest_map[k]]

\* dest_map after the survivors of one line are recorded at indices[write_idx].
RecordSurvivors(indices, tiles_seq, dest_map) ==
    LET ks == {Key(indices[w][1], indices[w][2]) : w \in 1 .. Len(tiles_seq)}
    IN  [k \in DOMAIN dest_map \cup ks |->
            IF k \in ks
            THEN tiles_seq[CHOOSE w \in 1 .. Len(tiles_seq) :
                               Key(indices[w][1], indices[w][2]) = k]
            ELSE dest_map[k]]

\* Fault injection: every direction compares the old line with `values`, as "left" does.
LineChangedValues(direction, n, old_grid, values, new_grid) ==
    IF direction \in {"left", "right"}
    THEN [i \in 1 .. COLS |-> old_grid[n][i - 1]] /= values
    ELSE [i \in 1 .. ROWS |-> old_grid[i - 1][n]] /= values

\* The comparison that sets `changed` for line n.
LineChanged(direction, n, old_grid, values, new_grid) ==
    CASE direction = "left" ->
            [i \in 1 .. COLS |-> old_grid[n][i - 1]] /= values
      [] direction = "right" ->
            [i \in 1 .. COLS |-> old_grid[n][i - 1]] /= [i \in 1 .. COLS |-> new_grid[n][i - 1]]
      [] direction = "up" ->
            [i \in 1 .. ROWS |-> old_grid[i - 1][n]] /= [i \in 1 .. ROWS |-> new_grid[i - 1][n]]
      [] direction = "down" ->
            [i \in 1 .. ROWS |-> old_grid[i - 1][n]] /= [i \in 1 .. ROWS |-> new_grid[i - 1][n]]

\* One pass of the loop over the lines of `direction`.
LineStep(direction, n, tls, old_grid, acc) ==
    LET indices == Indices(direction, n)
        pl == ProcessLine(indices, tls, acc.heap)
        g == PlaceValues(direction, n, pl.values, acc.new_grid)
    IN  [new_grid |-> g,
         dest_map |-> RecordSurvivors(indices, pl.tiles, acc.dest_map),
         changed |-> acc.changed \/ LineChanged(direction, n, old_grid, pl.values, g),
         heap |-> pl.heap,
         merges |-> acc.merges + pl.merges]

RECURSIVE LinesFrom(_, _, _, _, _)
LinesFrom(direction, n, tls, old_grid, acc) ==
    IF n >= (IF direction \in {"left", "right"} THEN ROWS ELSE COLS) THEN acc
    ELSE LinesFrom(direction, n + 1, tls, old_grid,
                   LineStep(direction, n, tls, old_grid, acc))

\* The body of Board.move up to `if not changed`.
MoveCompute(direction, tls, hp) ==
    LET old_grid == OldGrid(tls, hp)
        acc == LinesFrom(direction, 0, tls, old_grid,
                   [new_grid |-> ZeroGrid, dest_map |-> <<>>, changed |-> FALSE,
                    heap |-> hp, merges |-> 0])
    IN  [old_grid |-> old_grid, new_grid |-> acc.new_grid, dest_map |-> acc.dest_map,
         changed |-> acc.changed, heap |-> acc.heap, merges |-> acc.merges]

(***************************************************************************)
(* Board.finalize_move                                                     *)
(***************************************************************************)
\* Fault injection: the survivor gets its new value but keeps its old row and col.
FinalizeCellKeepsCell(r, c, new_grid, dest_map, acc) ==
    LET val == new_grid[r][c]
        key == Key(r, c)
    IN  IF val = 0 \/ key \notin DOMAIN dest_map THEN acc
        ELSE LET t == dest_map[key]
             IN  [new_tiles |-> [k \in DOMAIN acc.new_tiles \cup {key} |->
                                    IF k = key THEN t ELSE acc.new_tiles[k]],
                  heap |-> [acc.heap EXCEPT ![t] = update_pos([@ EXCEPT !.value = val])]]

\* Fault injection: the survivor's value is increased by the cell's value instead of set to it.
FinalizeCellAddsValue(r, c, new_grid, dest_map, acc) ==
    LET val == new_grid[r][c]
        key == Key(r, c)
    IN  IF val = 0 \/ key \notin DOMAIN dest_map THEN acc
        ELSE LET t == dest_map[key]
             IN  [new_tiles |-> [k \in DOMAIN acc.new_tiles \cup {key} |->
                                    IF k = key THEN t ELSE acc.new_tiles[k]],
                  heap |-> [acc.heap EXCEPT ![t] =
                               update_pos([@ EXCEPT !.value = @ + val, !.row = r, !.col = c])]]

\* One pass of the loop over the cells: new_tiles and the tile objects after it.
FinalizeCell(r, c, new_grid, dest_map, acc) ==
    LET val == new_grid[r][c]
        key == Key(r, c)
    IN  IF val = 0 THEN acc
        ELSE IF key \notin DOMAIN dest_map
             THEN \* fallback: a fresh Tile(val, r, c)
                  LET id == NewId(acc.heap)
                  IN  [new_tiles |-> [k \in DOMAIN acc.new_tiles \cup {key} |->
                                         IF k = key THEN id ELSE acc.new_tiles[k]],
                       heap |-> [j \in DOMAIN acc.heap \cup {id} |->
                                    IF j = id THEN NewTile(val, r, c) ELSE acc.heap[j]]]
             ELSE LET t == dest_map[key]
                  IN  [new_tiles |-> [k \in DOMAIN acc.new_tiles \cup {key} |->
                                         IF k = key THEN t ELSE acc.new_tiles[k]],
                       heap |-> [acc.heap EXCEPT ![t] =
                                    update_pos([@ EXCEPT !.value = val, !.row = r, !.col = c])]]

RECURSIVE FinalizeFrom(_, _, _, _)
FinalizeFrom(i, new_grid, dest_map, acc) ==
    IF i > Len(RowMajor) THEN acc
    ELSE FinalizeFrom(i + 1, new_grid, dest_map,
             FinalizeCell(RowMajor[i][1], RowMajor[i][2], new_grid, dest_map, acc))

\* The objects still referenced once self.tiles is new_tiles and the pending map is dropped.
Referenced(tls, hp) ==
    LET live == {tls[k] : k \in DOMAIN tls}
    IN  [j \in live |-> hp[j]]

\* The dict and the tile objects after finalize_move with a move pending.
FinalizeCompute(new_grid, dest_map, hp) ==
    LET acc == FinalizeFrom(1, new_grid, dest_map, [new_tiles |-> <<>>, heap |-> hp])
    IN  [tiles |-> acc.new_tiles, heap |-> Referenced(acc.new_tiles, acc.heap)]

\* The guard of finalize_move's early return.
NothingPending(png, pm) == png = None \/ pm = None

(***************************************************************************)
(* Board._apply_move: the value grid of a move and its Animation records.  *)
(* An Animation is [tile, start, end, is_merging], tile being the identity *)
(* of the Tile and start, end pairs <<x, y>> in half-pixels.               *)
(***************************************************************************)
\* The while loop of _collapse_line over `filtered`, from index i.
RECURSIVE CollapseFrom(_, _)
CollapseFrom(filtered, i) ==
    IF ~(i < Len(filtered)) THEN <<>>
    ELSE IF i + 1 < Len(filtered) /\ filtered[i + 1] = filtered[i + 2]
         THEN <<filtered[i + 1] * 2>> \o CollapseFrom(filtered, i + 2)
         ELSE <<filtered[i + 1]>> \o CollapseFrom(filtered, i + 1)

\* Fault injection: the zeros are not filtered out before the merge loop.
collapse_line_unfiltered(line) ==
    LET merged == CollapseFrom(line, 0)
    IN  merged \o [i \in 1 .. (Len(line) - Len(merged)) |-> 0]

\* Board._collapse_line
collapse_line(line) ==
    LET filtered == SelectSeq(line, LAMBDA x : x /= 0)
        merged == CollapseFrom(filtered, 0)
    IN  merged \o [i \in 1 .. (Len(line) - Len(merged)) |-> 0]

\* `line` of _apply_move: line n of the grid, read in the order of the direction.
ApplyLine(grid, direction, n) ==
    CASE direction = "left" -> [i \in 1 .. COLS |-> grid[n][i - 1]]
      [] direction = "right" -> [i \in 1 .. COLS |-> grid[n][COLS - i]]
      [] direction = "up" -> [i \in 1 .. ROWS |-> grid[i - 1][n]]
      [] direction = "down" -> [i \in 1 .. ROWS |-> grid[ROWS - i][n]]

\* The loop of _apply_move_simple over the lines of `direction`, from line n on.
RECURSIVE ApplySimpleFrom(_, _, _, _)
ApplySimpleFrom(grid, direction, n, new_grid) ==
    IF n >= (IF direction \in {"left", "right"} THEN ROWS ELSE COLS) THEN new_grid
    ELSE ApplySimpleFrom(grid, direction, n + 1,
             PlaceValues(direction, n, collapse_line(ApplyLine(grid, direction, n)), new_grid))

\* Board._apply_move_simple(grid, direction)
apply_move_simple(grid, direction) == ApplySimpleFrom(grid, direction, 0, ZeroGrid)

\* The positions p of a line whose value line[p + 1] is not 0, ascending or descending.
SortedPositions(line, ascending) ==
    LET asc == SelectSeq([i \in 1 .. Len(line) |-> i - 1], LAMBDA p : line[p + 1] /= 0)
    IN  IF ascending THEN asc ELSE [i \in 1 .. Len(asc) |-> asc[Len(asc) + 1 - i]]

\* One pass of `for new_c in new_positions` (`for new_r` in the column version);
\* cells[p + 1] is the cell at position p of the line.
AnimationsStep(new_grid, cells, old_positions, old_tiles, hp, new_p, st) ==
    LET new_val == new_grid[cells[new_p + 1][1]][cells[new_p + 1][2]]
        dest_pos == <<cells[new_p + 1][2] * RECT_WIDTH, cells[new_p + 1][1] * RECT_HEIGHT>>
        Record(p, merging) == [tile |-> old_tiles[p],
                               start |-> <<hp[old_tiles[p]].x, hp[old_tiles[p]].y>>,
                               end |-> dest_pos,
                               is_merging |-> merging]
        is_merge ==
            /\ st.old_idx + 1 < Len(old_positions)
            /\ old_positions[st.old_idx + 1] \in DOMAIN old_tiles
            /\ old_positions[st.old_idx + 2] \in DOMAIN old_tiles
            /\ hp[old_tiles[old_positions[st.old_idx + 1]]].value
                   = hp[old_tiles[old_positions[st.old_idx + 2]]].value
            /\ hp[old_tiles[old_positions[st.old_idx + 1]]].value * 2 = new_val
    IN  IF is_merge
        THEN [old_idx |-> st.old_idx + 2,
              animations |-> st.animations
                  \o <<Record(old_positions[st.old_idx + 1], TRUE),
                       Record(old_positions[st.old_idx + 2], TRUE)>>]
        ELSE IF st.old_idx < Len(old_positions)
             THEN [old_idx |-> st.old_idx + 1,
                   animations |->
                       IF old_positions[st.old_idx + 1] \in DOMAIN old_tiles
                       THEN Append(st.animations, Record(old_positions[st.old_idx + 1], FALSE))
                       ELSE st.animations]
             ELSE st

RECURSIVE AnimationsLoop(_, _, _, _, _, _, _, _)
AnimationsLoop(new_grid, cells, old_positions, old_tiles, hp, new_positions, i, st) ==
    IF i > Len(new_positions) THEN st
    ELSE AnimationsLoop(new_grid, cells, old_positions, old_tiles, hp, new_positions, i + 1,
             AnimationsStep(new_grid, cells, old_positions, old_tiles, hp,
                            new_positions[i], st))

\* The body shared by the row and the column version: old_tiles, old_positions sorted
\* by the direction, new_positions in ascending order, then the loop.
GenerateAnimations(old_grid, new_grid, cells, ascending, tls, hp, animations) ==
    LET old_line == [i \in 1 .. Len(cells) |-> old_grid[cells[i][1]][cells[i][2]]]
        new_line == [i \in 1 .. Len(cells) |-> new_grid[cells[i][1]][cells[i][2]]]
        with_tile == {p \in 0 .. (Len(cells) - 1) :
                         /\ old_line[p + 1] /= 0
                         /\ Key(cells[p + 1][1], cells[p + 1][2]) \in DOMAIN tls}
        old_tiles == [p \in with_tile |-> tls[Key(cells[p + 1][1], cells[p + 1][2])]]
        old_positions == SortedPositions(old_line, ascending)
        new_positions == SortedPositions(new_line, TRUE)
    IN  AnimationsLoop(new_grid, cells, old_positions, old_tiles, hp, new_positions, 1,
                       [old_idx |-> 0, animations |-> animations]).animations

\* Board._generate_row_animations
generate_row_animations(old_grid, new_grid, row, direction, tls, hp, animations) ==
    GenerateAnimations(old_grid, new_grid, [i \in 1 .. COLS |-> <<row, i - 1>>],
                       direction = "left", tls, hp, animations)

\* Board._generate_col_animations
generate_col_animations(old_grid, new_grid, col, direction, tls, hp, animations) ==
    GenerateAnimations(old_grid, new_grid, [i \in 1 .. ROWS |-> <<i - 1, col>>],
                       direction = "up", tls, hp, animations)

\* One pass of the loop of _apply_move over the lines of `direction`.
ApplyMoveLine(grid, direction, n, tls, hp, acc) ==
    LET g == PlaceValues(direction, n, collapse_line(ApplyLine(grid, direction, n)),
                         acc.new_grid)
    IN  [new_grid |-> g,
         animations |->
             IF direction \in {"left", "right"}
             THEN generate_row_animations(grid, g, n, direction, tls, hp, acc.animations)
             ELSE generate_col_animations(grid, g, n, direction, tls, hp, acc.animations)]

RECURSIVE ApplyMoveFrom(_, _, _, _, _, _)
ApplyMoveFrom(grid, direction, n, tls, hp, acc) ==
    IF n >= (IF direction \in {"left", "right"} THEN ROWS ELSE COLS) THEN acc
    ELSE ApplyMoveFrom(grid, direction, n + 1, tls, hp,
                       ApplyMoveLine(grid, direction, n, tls, hp, acc))

\* Board._apply_move(grid, direction): (new_grid, animations)
apply_move(grid, direction, tls, hp) ==
    ApplyMoveFrom(grid, direction, 0, tls, hp, [new_grid |-> ZeroGrid, animations |-> <<>>])

(***************************************************************************)
(* Board.is_game_over                                                      *)
(***************************************************************************)
\* Fault injection: only the neighbour to the right, (0, 1), is compared.
is_game_over_right_only(tls, hp) ==
    IF Cardinality(DOMAIN tls) < ROWS * COLS THEN FALSE
    ELSE ~\E r \in RowRange, c \in ColRange :
              /\ c + 1 < COLS
              /\ hp[tls[Key(r, c + 1)]].value = hp[tls[Key(r, c)]].value

\* Fault injection: no test of len(self.tiles); a cell without a tile is skipped.
is_game_over_skips_empty(tls, hp) ==
    ~\E r \in RowRange, c \in ColRange, d \in {<<0, 1>>, <<1, 0>>} :
         LET nr == r + d[1]
             nc == c + d[2]
         IN  /\ nr < ROWS
             /\ nc < COLS
             /\ Key(r, c) \in DOMAIN tls
             /\ Key(nr, nc) \in DOMAIN tls
             /\ hp[tls[Key(nr, nc)]].value = hp[tls[Key(r, c)]].value

\* is_game_over: False when a key is missing, else False on the first cell whose
\* neighbour at (0, 1) or (1, 0) is inside the grid and has the cell's value.
is_game_over(tls, hp) ==
    IF Cardinality(DOMAIN tls) < ROWS * COLS THEN FALSE
    ELSE ~\E r \in RowRange, c \in ColRange, d \in {<<0, 1>>, <<1, 0>>} :
              LET nr == r + d[1]
                  nc == c + d[2]
              IN  /\ nr < ROWS
                  /\ nc < COLS
                  /\ hp[tls[Key(nr, nc)]].value = hp[tls[Key(r, c)]].value

(***************************************************************************)
(* Score and undo history.  game/board.py defines neither; main.py reads   *)
(* board.score and calls board.undo().  They are modelled from the         *)
(* documentation: the score grows at finalization by the value of every    *)
(* merge result of the move; a snapshot of {grid contents, score} is taken *)
(* immediately before a move is committed; undo restores the snapshot and  *)
(* is available once (single-level history).                               *)
(***************************************************************************)
\* The merge results of the pending move: the survivors whose cell value in
\* new_grid is not the value they still show.
MergeResults(new_grid, dest_map, hp) ==
    {k \in DOMAIN dest_map : new_grid[k \div 10][k % 10] /= hp[dest_map[k]].value}

RECURSIVE SumOver(_, _)
SumOver(ks, f) ==
    IF ks = {} THEN 0
    ELSE LET k == CHOOSE q \in ks : TRUE
         IN  f[k] + SumOver(ks \ {k}, f)

\* Fault injection: a merge scores the value of one merged tile, not the doubled value.
ScoreDeltaHalf(new_grid, dest_map, hp) ==
    LET ks == MergeResults(new_grid, dest_map, hp)
    IN  SumOver(ks, [k \in ks |-> hp[dest_map[k]].value])

\* The score delta of the pending move: the doubled value, once per merge.
ScoreDelta(new_grid, dest_map, hp) ==
    LET ks == MergeResults(new_grid, dest_map, hp)
    IN  SumOver(ks, [k \in ks |-> new_grid[k \div 10][k % 10]])

\* The history entry: the grid contents and the score (an Optional that is set).
Snapshot(tls, hp, sc) == <<[grid |-> OldGrid(tls, hp), score |-> sc]>>

\* Fault injection: the snapshot's score is restored, its grid is not.
RestoreScoreOnly(snapshot, tls, hp) == [tiles |-> tls, heap |-> hp, score |-> snapshot.score]

\* The board restored from a history entry: a tile for every non-empty cell of the grid.
Restore(snapshot, tls, hp) ==
    LET b == SpawnGrid([q \in RowRange \X ColRange |-> snapshot.grid[q[1]][q[2]]],
                       1, [tiles |-> <<>>, heap |-> <<>>])
    IN  [tiles |-> b.tiles, heap |-> b.heap, score |-> snapshot.score]

(***************************************************************************)
(* ScoreManager (game/score_manager.py).  A ScoreManager is the record of  *)
(* its attribute best_score; the save file is <<n>> when it holds the JSON *)
(* object {"best_score": n} and None when it cannot be read.  Writing the  *)
(* file changes nothing that the program reads back before it ends.        *)
(***************************************************************************)
\* ScoreManager._load_best_score
load_best_score(file) == IF file = None THEN 0 ELSE file[1]

\* ScoreManager.__init__
ScoreManager(file) == [best_score |-> load_best_score(file)]

\* Fault injection: a score equal to the best counts as a new best.
update_best_score_or_equal(self, current_score) ==
    IF current_score >= self.best_score
    THEN [self |-> [self EXCEPT !.best_score = current_score], ret |-> TRUE]
    ELSE [self |-> self, ret |-> FALSE]

\* ScoreManager.update_best_score(current_score): the object afterwards and the result.
update_best_score(self, current_score) ==
    IF current_score > self.best_score
    THEN [self |-> [self EXCEPT !.best_score = current_score], ret |-> TRUE]
    ELSE [self |-> self, ret |-> FALSE]

\* ScoreManager.get_best_score
get_best_score(self) == self.best_score

(***************************************************************************)
(* The state machine.  `calls` counts the calls made since construction.   *)
(* `last` records the latest call on the board: its name, arguments and    *)
(* return value, the local grids of move, whether it raised, for           *)
(* finalize_move the call that preceded it, and whether Renderer.animate   *)
(* has played since.                                                       *)
(***************************************************************************)
\* The flags of main() when the game loop starts: the start screen is shown.
\* What a reader of a tile sees: value, row, col, x, y.
TileFacts(t) == [value |-> t.value, row |-> t.row, col |-> t.col, x |-> t.x, y |-> t.y]

\* Iterating the object get_tiles returned, self.tiles.values(): a view of a dict, so
\* the tiles that dict holds now, each as it is now.  While `live` the dict is the one
\* self.tiles is bound to; after self.tiles was rebound it is the dict `dict` left
\* behind, and `gone` holds the tiles that only that dict still refers to.
ViewRead(w, tls, hp) ==
    LET d == IF w.live THEN tls ELSE w.dict
    IN  [k \in DOMAIN d |->
            IF d[k] \in DOMAIN w.gone THEN w.gone[d[k]] ELSE TileFacts(hp[d[k]])]

\* The view after `self.tiles = new_tiles`: it stays on the old dict; hp2 holds the
\* tiles the board still refers to.
ViewAfterRebind(v, tls, hp, hp2) ==
    IF v = None THEN None
    ELSE LET w == v[1]
             d == IF w.live THEN tls ELSE w.dict
             dropped == {j \in {d[k] : k \in DOMAIN d} :
                            j \notin DOMAIN w.gone /\ j \notin DOMAIN hp2}
         IN  <<[w EXCEPT !.live = FALSE,
                        !.dict = d,
                        !.gone = [j \in DOMAIN w.gone \cup dropped |->
                                     IF j \in DOMAIN w.gone THEN w.gone[j]
                                     ELSE TileFacts(hp[j])]]>>

MainAtStart == [start_screen |-> TRUE, game_over |-> FALSE, ANIMATING |-> FALSE]

\* The flags of main() during play, between two events.
MainInPlay == [start_screen |-> FALSE, game_over |-> FALSE, ANIMATING |-> FALSE]

\* Board.__init__: an empty dict, nothing pending, then _spawn_initial.
Init ==
    \E p1 \in Choices(<<>>), v1 \in {2, 4} :
        \E s1 \in {SpawnAt(<<>>, <<>>, p1, v1)} :
            \E p2 \in Choices(s1.tiles), v2 \in {2, 4} :
                \E s2 \in {SpawnAt(s1.tiles, s1.heap, p2, v2)} :
                    /\ tiles = s2.tiles
                    /\ heap = s2.heap
                    /\ pending_new_grid = None
                    /\ pending_map = None
                    /\ score = 0
                    /\ history = None
                    /\ main = MainAtStart
                    /\ view = None
                    /\ score_manager = ScoreManager(None)
                    /\ last = [op |-> "init", animated |-> FALSE]
                    /\ calls = 0

\* One more call on the board from outside the game loop, within the bound.
Counted == calls < MaxCalls /\ calls' = calls + 1 /\ UNCHANGED <<main, score_manager>>

\* A call that leaves self.tiles bound to the dict object it was bound to.
Called == Counted /\ UNCHANGED view

\* Board.spawn_random(): value is None, so val is random.choice([2, 4]).
SpawnRandom ==
    /\ Called
    /\ IF EmptyCells(tiles) = <<>>
       THEN UNCHANGED <<tiles, heap>>
       ELSE \E p \in Choices(tiles), val \in {2, 4} :
                \E s \in {SpawnAt(tiles, heap, p, val)} :
                    tiles' = s.tiles /\ heap' = s.heap
    /\ UNCHANGED <<pending_new_grid, pending_map, score, history>>
    /\ last' = [op |-> "spawn_random", animated |-> FALSE]

\* Board.move(direction)
Move(direction) ==
    /\ Called
    /\ \E m \in {MoveCompute(direction, tiles, heap)} :
           /\ heap' = m.heap
           /\ UNCHANGED <<tiles, score, history>>
           /\ IF ~m.changed
              THEN UNCHANGED <<pending_new_grid, pending_map>>
              ELSE /\ pending_new_grid' = m.new_grid
                   /\ pending_map' = m.dest_map
           /\ last' = [op |-> "move", direction |-> direction, ret |-> m.changed,
                       old_grid |-> m.old_grid, new_grid |-> m.new_grid,
                       merges |-> m.merges, animated |-> FALSE]

\* Board.move(direction) called again right after a call of move(direction) that
\* returned False, nothing having been called in between.
MoveAgain(direction) ==
    /\ last.op = "move"
    /\ ~last.animated
    /\ ~last.ret
    /\ last.direction = direction
    /\ Called
    /\ \E m \in {MoveCompute(direction, tiles, heap)} :
           /\ heap' = m.heap
           /\ UNCHANGED <<tiles, score, history>>
           /\ IF ~m.changed
              THEN UNCHANGED <<pending_new_grid, pending_map>>
              ELSE /\ pending_new_grid' = m.new_grid
                   /\ pending_map' = m.dest_map
           /\ last' = [op |-> "move", direction |-> direction, ret |-> m.changed,
                       old_grid |-> m.old_grid, new_grid |-> m.new_grid,
                       merges |-> m.merges, animated |-> FALSE, again |-> TRUE]

\* Fault injection: finalize_move without its early return; with nothing pending
\* the read of new_grid[r][c] raises.
FinalizeMoveNoGuard ==
    /\ Counted
    /\ IF NothingPending(pending_new_grid, pending_map)
       THEN UNCHANGED <<tiles, heap, pending_new_grid, pending_map, score, history, view>>
       ELSE \E f \in {FinalizeCompute(pending_new_grid, pending_map, heap)} :
                /\ tiles' = f.tiles
                /\ heap' = f.heap
                /\ view' = ViewAfterRebind(view, tiles, heap, f.heap)
                /\ pending_new_grid' = None
                /\ pending_map' = None
                /\ score' = score + ScoreDelta(pending_new_grid, pending_map, heap)
                /\ history' = Snapshot(tiles, heap, score)
    /\ last' = [op |-> "finalize_move",
                committed |-> ~NothingPending(pending_new_grid, pending_map),
                raised |-> NothingPending(pending_new_grid, pending_map),
                score_before |-> score, prev |-> last, animated |-> FALSE]

\* Board.finalize_move()
FinalizeMove ==
    /\ Counted
    /\ IF NothingPending(pending_new_grid, pending_map)
       THEN UNCHANGED <<tiles, heap, pending_new_grid, pending_map, score, history, view>>
       ELSE \E f \in {FinalizeCompute(pending_new_grid, pending_map, heap)} :
                /\ tiles' = f.tiles
                /\ heap' = f.heap
                /\ view' = ViewAfterRebind(view, tiles, heap, f.heap)
                /\ pending_new_grid' = None
                /\ pending_map' = None
                /\ score' = score + ScoreDelta(pending_new_grid, pending_map, heap)
                /\ history' = Snapshot(tiles, heap, score)
    /\ last' = [op |-> "finalize_move",
                committed |-> ~NothingPending(pending_new_grid, pending_map),
                raised |-> FALSE, score_before |-> score, prev |-> last, animated |-> FALSE]

\* Renderer.animate(board, ...): the tiles with animation data end at their
\* animation end position (the last frame has eased = 1) and are cleared.
Animate ==
    /\ Called
    /\ \E animating \in {{j \in {tiles[k] : k \in DOMAIN tiles} : has_animation(heap[j])}} :
        /\ animating /= {}
        /\ heap' = [j \in DOMAIN heap |->
                      IF j \in animating
                      THEN clear_animation([heap[j] EXCEPT !.x = heap[j].anim_end_x[1],
                                                           !.y = heap[j].anim_end_y[1]])
                      ELSE heap[j]]
        /\ UNCHANGED <<tiles, pending_new_grid, pending_map, score, history>>
        /\ last' = [last EXCEPT !.animated = TRUE]

\* Board.is_game_over(): a query, the board is left as it is.
IsGameOver ==
    /\ Called
    /\ UNCHANGED <<tiles, heap, pending_new_grid, pending_map, score, history>>
    /\ last' = [op |-> "is_game_over", ret |-> is_game_over(tiles, heap), animated |-> FALSE]

\* Fault injection: undo reports True whether or not a history entry existed.
UndoAlwaysTrue ==
    /\ Counted
    /\ IF history = None
       THEN UNCHANGED <<tiles, heap, pending_new_grid, pending_map, score, history, view>>
       ELSE \E u \in {Restore(history[1], tiles, heap)} :
                /\ tiles' = u.tiles
                /\ view' = ViewAfterRebind(view, tiles, heap, <<>>)
                /\ heap' = u.heap
                /\ score' = u.score
                /\ history' = None
                /\ pending_new_grid' = None
                /\ pending_map' = None
    /\ last' = [op |-> "undo", ret |-> TRUE, prev |-> last, animated |-> FALSE]

\* board.undo(): False and nothing changed without a history entry; otherwise the
\* snapshot is restored, the entry is used up and a pending move is dropped.
Undo ==
    /\ Counted
    /\ IF history = None
       THEN UNCHANGED <<tiles, heap, pending_new_grid, pending_map, score, history, view>>
       ELSE \E u \in {Restore(history[1], tiles, heap)} :
                /\ tiles' = u.tiles
                /\ view' = ViewAfterRebind(view, tiles, heap, <<>>)
                /\ heap' = u.heap
                /\ score' = u.score
                /\ history' = None
                /\ pending_new_grid' = None
                /\ pending_map' = None
    /\ last' = [op |-> "undo", ret |-> history /= None, prev |-> last, animated |-> FALSE]

\* Fault injection: reset leaves a pending move in place.
ResetKeepsPending ==
    /\ Counted
    /\ view' = ViewAfterRebind(view, tiles, heap, <<>>)
    /\ \E p1 \in Choices(<<>>), v1 \in {2, 4} :
           \E s1 \in {SpawnAt(<<>>, <<>>, p1, v1)} :
               \E p2 \in Choices(s1.tiles), v2 \in {2, 4} :
                   \E s2 \in {SpawnAt(s1.tiles, s1.heap, p2, v2)} :
                       /\ tiles' = s2.tiles
                       /\ heap' = s2.heap
    /\ UNCHANGED <<pending_new_grid, pending_map>>
    /\ score' = 0
    /\ history' = None
    /\ last' = [op |-> "reset", was_pending |-> pending_new_grid /= None, animated |-> FALSE]

\* board.reset(): all tiles cleared, the history cleared, the score 0, no pending
\* move, then the two-tile initial spawn, as in Board.__init__.
Reset ==
    /\ Counted
    /\ view' = ViewAfterRebind(view, tiles, heap, <<>>)
    /\ \E p1 \in Choices(<<>>), v1 \in {2, 4} :
           \E s1 \in {SpawnAt(<<>>, <<>>, p1, v1)} :
               \E p2 \in Choices(s1.tiles), v2 \in {2, 4} :
                   \E s2 \in {SpawnAt(s1.tiles, s1.heap, p2, v2)} :
                       /\ tiles' = s2.tiles
                       /\ heap' = s2.heap
    /\ pending_new_grid' = None
    /\ pending_map' = None
    /\ score' = 0
    /\ history' = None
    /\ last' = [op |-> "reset", was_pending |-> pending_new_grid /= None, animated |-> FALSE]

\* The names class Board and Board.__init__ define: the instance fields and the methods.
BoardAttributes ==
    {"tiles", "_pending_new_grid", "_pending_map", "_key", "_spawn_initial",
     "spawn_random", "move", "finalize_move", "_apply_move_simple", "_apply_move",
     "_collapse_line", "_generate_row_animations", "_generate_col_animations",
     "is_game_over", "get_tiles"}

\* board.has_won(): the lookup of a name that Board does not define raises
\* AttributeError before anything is called; the board is left as it is.
HasWon ==
    /\ Called
    /\ "has_won" \notin BoardAttributes
    /\ UNCHANGED <<tiles, heap, pending_new_grid, pending_map, score, history>>
    /\ last' = [op |-> "has_won", raised |-> TRUE, ret |-> None, animated |-> FALSE]

\* Board.get_tiles(): returns self.tiles.values(); `at_call` notes what iterating it
\* gives at the time of the call.
GetTiles ==
    /\ Counted
    /\ view' = <<[live |-> TRUE, dict |-> <<>>, gone |-> <<>>,
                  at_call |-> [k \in DOMAIN tiles |-> TileFacts(heap[tiles[k]])]]>>
    /\ UNCHANGED <<tiles, heap, pending_new_grid, pending_map, score, history>>
    /\ last' = [op |-> "get_tiles", animated |-> FALSE]

Next ==
    \/ \E direction \in Directions : Move(direction)
    \/ FinalizeMove
    \/ SpawnRandom
    \/ Animate

Spec == Init /\ [][Next]_vars

\* Board._apply_move(grid, direction) with the value grid of the board's own tiles;
\* the board is left as it is.
ApplyMove(direction) ==
    /\ Called
    /\ UNCHANGED <<tiles, heap, pending_new_grid, pending_map, score, history>>
    /\ \E a \in {apply_move(OldGrid(tiles, heap), direction, tiles, heap)} :
           last' = [op |-> "apply_move", direction |-> direction,
                    grid |-> OldGrid(tiles, heap), new_grid |-> a.new_grid,
                    animations |-> a.animations, animated |-> FALSE]

\* Board._apply_move_simple(grid, direction) called right after Board.move(direction),
\* with the value grid of the board's own tiles; the board is left as it is.
ApplyMoveSimple(direction) ==
    /\ last.op = "move"
    /\ ~last.animated
    /\ last.direction = direction
    /\ Called
    /\ UNCHANGED <<tiles, heap, pending_new_grid, pending_map, score, history>>
    /\ last' = [op |-> "apply_move_simple", direction |-> direction,
                grid |-> OldGrid(tiles, heap),
                new_grid |-> apply_move_simple(OldGrid(tiles, heap), direction),
                prev |-> last, animated |-> FALSE]

\* A caller that keeps what get_tiles returned while the board is played on.
NextView ==
    \/ GetTiles
    \/ \E direction \in Directions : Move(direction)
    \/ FinalizeMove
    \/ SpawnRandom
    \/ Animate

SpecView == Init /\ [][NextView]_vars

(***************************************************************************)
(* The move algorithm on the lines of a board.  A board holding between    *)
(* two and four tiles valued 2 or 4 along one row or one column is a board *)
(* that Board() and spawn_random() produce; the tiles are numbered in the  *)
(* order of the line.                                                      *)
(***************************************************************************)
\* The cells of row n (axis "row") or column n (axis "col").
LineCells(axis, n) ==
    IF axis = "row" THEN [i \in 1 .. COLS |-> <<n, i - 1>>]
    ELSE [i \in 1 .. ROWS |-> <<i - 1, n>>]

\* The board after tiles valued vals[i] /= 0 are spawned at cells[i], from i on.
RECURSIVE SpawnLine(_, _, _, _)
SpawnLine(cells, vals, i, acc) ==
    IF i > Len(cells) THEN acc
    ELSE SpawnLine(cells, vals, i + 1,
             IF vals[i] = 0 THEN acc ELSE SpawnAt(acc.tiles, acc.heap, cells[i], vals[i]))

InitLine ==
    \E axis \in {"row", "col"}, n \in RowRange, vals \in [1 .. COLS -> {0, 2, 4}] :
        /\ Cardinality({i \in 1 .. COLS : vals[i] /= 0}) >= 2
        /\ \E b \in {SpawnLine(LineCells(axis, n), vals, 1, [tiles |-> <<>>, heap |-> <<>>])} :
               /\ tiles = b.tiles
               /\ heap = b.heap
               /\ pending_new_grid = None
               /\ pending_map = None
               /\ score = 0
               /\ history = None
               /\ main = MainInPlay
               /\ view = None
               /\ score_manager = ScoreManager(None)
               /\ last = [op |-> "init", animated |-> FALSE]
               /\ calls = 0

NextLine ==
    \/ \E direction \in Directions : Move(direction)
    \/ FinalizeMove

SpecLine == InitLine /\ [][NextLine]_vars

\* _apply_move on a board of one line.
NextApply == \E direction \in Directions : ApplyMove(direction)

SpecApply == InitLine /\ [][NextApply]_vars

\* Board.move and _apply_move_simple on a board of one line.
NextSimple ==
    \/ \E direction \in Directions : Move(direction)
    \/ \E direction \in Directions : ApplyMoveSimple(direction)

SpecSimple == InitLine /\ [][NextSimple]_vars

\* Moves on a board of one line, a move that returned False being repeated at once.
NextRepeat ==
    \/ \E direction \in Directions : Move(direction)
    \/ \E direction \in Directions : MoveAgain(direction)

SpecRepeat == InitLine /\ [][NextRepeat]_vars

(***************************************************************************)
(* Boards near the end of a game.  Outside the cells that spawn_random may *)
(* choose within the bound, every cell holds a tile, 8 and 2 alternating;  *)
(* each of the other cells is empty or holds a 2 or a 4.  Such a board is  *)
(* one that play reaches, and that Board() followed by spawn_random(value) *)
(* builds; the tiles are numbered in row-major order.                      *)
(***************************************************************************)
\* The cells random.choice may return within the bound.
SpawnCells == {q \in RowRange \X ColRange : ShellIndex(q) < MaxSpawnCells}

InitFull ==
    \E box \in [SpawnCells -> {0, 2, 4}] :
        \E b \in {SpawnGrid([q \in RowRange \X ColRange |->
                                IF q \in SpawnCells THEN box[q]
                                ELSE IF (q[1] + q[2]) % 2 = 0 THEN 8 ELSE 2],
                            1, [tiles |-> <<>>, heap |-> <<>>])} :
            /\ tiles = b.tiles
            /\ heap = b.heap
            /\ pending_new_grid = None
            /\ pending_map = None
            /\ score = 0
            /\ history = None
            /\ main = MainInPlay
            /\ view = None
            /\ score_manager = ScoreManager(None)
            /\ last = [op |-> "init", animated |-> FALSE]
            /\ calls = 0

NextFull ==
    \/ IsGameOver
    \/ SpawnRandom

SpecFull == InitFull /\ [][NextFull]_vars

(***************************************************************************)
(* A new Board under move, finalize_move, undo and reset.                  *)
(***************************************************************************)
NextUndo ==
    \/ \E direction \in Directions : Move(direction)
    \/ FinalizeMove
    \/ Undo
    \/ Reset

SpecUndo == Init /\ [][NextUndo]_vars

(***************************************************************************)
(* The game loop of main(): the handling of one direction key.  The loop   *)
(* handles one event at a time and nothing inside the handling reads the   *)
(* event queue, so the handling of a key is one step.  In the loop `calls` *)
(* counts the keys handled and `last` records the latest one: whether the  *)
(* gameplay branch ran (`played`), the value of `moved`, the grids of the  *)
(* move and the value ANIMATING had while the board was being changed.     *)
(***************************************************************************)
\* Renderer.animate: the tiles of the board with animation data end at their end
\* position and are cleared; without such tiles nothing happens.
animate(tls, hp) ==
    LET animating_tiles == {j \in {tls[k] : k \in DOMAIN tls} : has_animation(hp[j])}
    IN  [j \in DOMAIN hp |->
            IF j \in animating_tiles
            THEN clear_animation([hp[j] EXCEPT !.x = hp[j].anim_end_x[1],
                                               !.y = hp[j].anim_end_y[1]])
            ELSE hp[j]]

\* Fault injection: the key handling skips finalize_move.
FinalizeAfterMoveSkipped(m) == [tiles |-> tiles, heap |-> animate(tiles, m.heap)]

\* renderer.animate and board.finalize_move under `if moved:`, m being what
\* board.move computed: the board they leave.
FinalizeAfterMove(m) == FinalizeCompute(m.new_grid, m.dest_map, animate(tiles, m.heap))

\* The cells random.choice may return in the spawn_random of the key handling.
SpawnChoicesAfter(f) == IF EmptyCells(f.tiles) = <<>> THEN {<<0, 0>>} ELSE Choices(f.tiles)

\* board.spawn_random under `if moved:`, on the board f that finalize_move left.
SpawnAfterMove(f, p, val) ==
    IF EmptyCells(f.tiles) = <<>> THEN f ELSE SpawnAt(f.tiles, f.heap, p, val)

\* Fault injection: is_game_over is evaluated on the board f as finalize_move left it,
\* before the spawn.
GameOverCheckBeforeSpawn(f, b) == is_game_over(f.tiles, f.heap)

\* `if board.is_game_over():` at the end of the key handling, on the board b that the
\* handling left (f is the board before the spawn).
GameOverCheck(f, b) == is_game_over(b.tiles, b.heap)

\* Fault injection: the gameplay branch is entered after the game is over too.
KeyGuardIgnoresGameOver(flags) == ~flags.ANIMATING /\ ~flags.start_screen

\* The condition of the gameplay branch of a KEYDOWN event.
KeyGuard(flags) == ~flags.ANIMATING /\ ~flags.game_over /\ ~flags.start_screen

\* The flags after `ANIMATING = True`, as they are while board.move runs.
FlagsAtMove(flags) == [flags EXCEPT !.ANIMATING = TRUE]

\* The flags when the handling of the key ends: `ANIMATING = False`, then game_over
\* set if is_game_over returned True.
FlagsAtEnd(flags, over) ==
    LET done == [flags EXCEPT !.ANIMATING = FALSE]
    IN  IF over THEN [done EXCEPT !.game_over = TRUE] ELSE done

\* A KEYDOWN event with a direction key.
KeyDown(direction) ==
    /\ calls < MaxKeys
    /\ calls' = calls + 1
    /\ IF KeyGuard(main)
       THEN \E m \in {MoveCompute(direction, tiles, heap)} :
                /\ IF m.changed
                   THEN \E f \in {FinalizeAfterMove(m)} :
                          \E p \in SpawnChoicesAfter(f), val \in {2, 4} :
                            \E b \in {SpawnAfterMove(f, p, val)} :
                                /\ tiles' = b.tiles
                                /\ heap' = b.heap
                                /\ pending_new_grid' = None
                                /\ pending_map' = None
                                /\ view' = ViewAfterRebind(view, tiles, m.heap, f.heap)
                                /\ score' = score + ScoreDelta(m.new_grid, m.dest_map, m.heap)
                                /\ history' = Snapshot(tiles, heap, score)
                                /\ score_manager' = update_best_score(score_manager, score').self
                                /\ main' = FlagsAtEnd(FlagsAtMove(main), GameOverCheck(f, b))
                   ELSE \E b \in {[tiles |-> tiles, heap |-> m.heap]} :
                        /\ heap' = m.heap
                        /\ UNCHANGED <<tiles, pending_new_grid, pending_map, score, history, view,
                                       score_manager>>
                        /\ main' = FlagsAtEnd(FlagsAtMove(main), GameOverCheck(b, b))
                /\ last' = [op |-> "keydown", direction |-> direction, played |-> TRUE,
                            moved |-> m.changed, new_grid |-> m.new_grid,
                            at_move |-> FlagsAtMove(main), animated |-> FALSE]
       ELSE /\ UNCHANGED <<tiles, heap, pending_new_grid, pending_map, score, history, view,
                           score_manager>>
            /\ main' = [main EXCEPT !.start_screen = FALSE]
            /\ last' = [op |-> "keydown", direction |-> direction, played |-> FALSE,
                        animated |-> FALSE]

\* A new game behind the start screen, or a game in play with at most two empty cells.
InitLoop == Init \/ (InitFull /\ Cardinality(DOMAIN tiles) >= ROWS * COLS - 2)

NextLoop == \E direction \in Directions : KeyDown(direction)

SpecLoop == InitLoop /\ [][NextLoop]_vars

(***************************************************************************)
(* Boards late in a game: between two and four tiles valued 1024 or 2048   *)
(* along the first row or the first column, as play reaches them and as    *)
(* Board() followed by spawn_random(value) builds them.                    *)
(***************************************************************************)
InitWin ==
    \E axis \in {"row", "col"}, vals \in [1 .. COLS -> {0, 1024, 2048}] :
        /\ Cardinality({i \in 1 .. COLS : vals[i] /= 0}) >= 2
        /\ \E b \in {SpawnLine(LineCells(axis, 0), vals, 1, [tiles |-> <<>>, heap |-> <<>>])} :
               /\ tiles = b.tiles
               /\ heap = b.heap
               /\ pending_new_grid = None
               /\ pending_map = None
               /\ score = 0
               /\ history = None
               /\ main = MainInPlay
               /\ view = None
               /\ score_manager = ScoreManager(None)
               /\ last = [op |-> "init", animated |-> FALSE]
               /\ calls = 0

NextWin ==
    \/ HasWon
    \/ \E direction \in Directions : Move(direction)
    \/ FinalizeMove
    \/ SpawnRandom

SpecWin == InitWin /\ [][NextWin]_vars

(***************************************************************************)
(* A ScoreManager under update_best_score.  The ScoreManager is built from *)
(* a save file holding a best score up to MaxScore, or from no file; the   *)
(* scores passed in range from -1 to MaxScore.                             *)
(***************************************************************************)
MaxScore == 4

\* score_manager.update_best_score(current_score), then get_best_score().
UpdateBestScore ==
    /\ calls < MaxCalls
    /\ calls' = calls + 1
    /\ \E current_score \in -1 .. MaxScore :
           \E u \in {update_best_score(score_manager, current_score)} :
               /\ score_manager' = u.self
               /\ last' = [op |-> "update_best_score", current_score |-> current_score,
                           ret |-> u.ret, best |-> get_best_score(u.self),
                           loaded |-> last.loaded,
                           passed |-> last.passed \cup {current_score},
                           animated |-> FALSE]
    /\ UNCHANGED <<tiles, heap, pending_new_grid, pending_map, score, history, main, view>>

InitScore ==
    \E file \in {None} \cup {<<n>> : n \in 0 .. MaxScore} :
        /\ score_manager = ScoreManager(file)
        /\ tiles = <<>>
        /\ heap = <<>>
        /\ pending_new_grid = None
        /\ pending_map = None
        /\ score = 0
        /\ history = None
        /\ main = MainAtStart
        /\ view = None
        /\ last = [op |-> "ScoreManager", loaded |-> get_best_score(ScoreManager(file)),
                   passed |-> {}, animated |-> FALSE]
        /\ calls = 0

NextScore == UpdateBestScore

SpecScore == InitScore /\ [][NextScore]_vars

(***************************************************************************)
(* GUI.py: the stand-alone game.  The dict `tiles` of main(window) maps    *)
(* the key f"{row}{col}" to a Tile; the key of two decimal digits is       *)
(* modelled as the number 10 * row + col, a Tile as a record of its        *)
(* attributes value, row, col, x, y held in `heap` under its identity.     *)
(***************************************************************************)
GUI_WIDTH == 800
GUI_HEIGHT == 800
GUI_ROWS == 4
GUI_COLS == 4
GUI_RECT_HEIGHT == GUI_HEIGHT \div GUI_ROWS
GUI_RECT_WIDTH == GUI_WIDTH \div GUI_COLS

\* Bound of the model: the number of direction keys main(window) handles in a behaviour.
MaxGuiKeys == 1

\* f"{row}{col}" for one-digit row and col.
GuiKey(row, col) == 10 * row + col

\* Tile.__init__
GuiTile(value, row, col) ==
    [value |-> value, row |-> row, col |-> col,
     x |-> col * GUI_RECT_WIDTH, y |-> row * GUI_RECT_HEIGHT]

\* Tile.set_xy_from_grid
set_xy_from_grid(t) == [t EXCEPT !.x = t.col * GUI_RECT_WIDTH, !.y = t.row * GUI_RECT_HEIGHT]

\* The cells get_random_pos may return, within the bound: those whose key is not in the dict.
get_random_pos(tls) ==
    {p \in {q \in (0 .. GUI_ROWS - 1) \X (0 .. GUI_COLS - 1) : ShellIndex(q) < MaxSpawnCells} :
        GuiKey(p[1], p[2]) \notin DOMAIN tls}

\* tiles[f"{row}{col}"] = Tile(value, row, col)
GuiPut(tls, hp, p, value) ==
    LET id == NewId(hp)
        k == GuiKey(p[1], p[2])
    IN  [tiles |-> [q \in DOMAIN tls \cup {k} |-> IF q = k THEN id ELSE tls[q]],
         heap |-> [j \in DOMAIN hp \cup {id} |->
                      IF j = id THEN GuiTile(value, p[1], p[2]) ELSE hp[j]]]

\* move_tiles, the 2D grid of tile references: grid[t.row][t.col] = t for the tiles
\* of the dict, 0 standing for None.
GuiGrid(tls, hp) ==
    [r \in 0 .. GUI_ROWS - 1 |-> [c \in 0 .. GUI_COLS - 1 |->
        LET here == {tls[k] : k \in {q \in DOMAIN tls : hp[tls[q]].row = r /\ hp[tls[q]].col = c}}
        IN  IF here = {} THEN 0 ELSE CHOOSE j \in here : TRUE]]

\* The cell that index i of line n names for the direction, i = 0 .. 3: the getter
\* reads it and the setter computes its dest_key from it.
GuiLineCells(direction, n) ==
    [i \in 1 .. 4 |->
        CASE direction = "left" -> <<n, i - 1>>
          [] direction = "right" -> <<n, GUI_COLS - 1 - (i - 1)>>
          [] direction = "up" -> <<i - 1, n>>
          [] direction = "down" -> <<GUI_ROWS - 1 - (i - 1), n>>]

\* The setter of a direction: the animation record of a tile sent to index dest.
GuiSetter(cells, hp, tile, dest, is_merged) ==
    [tile |-> tile,
     start |-> <<hp[tile].x, hp[tile].y>>,
     end |-> <<cells[dest + 1][2] * GUI_RECT_WIDTH, cells[dest + 1][1] * GUI_RECT_HEIGHT>>,
     is_merged |-> is_merged,
     dest_key |-> GuiKey(cells[dest + 1][1], cells[dest + 1][2])]

\* handle_line, the test of its while loop: the next tile of the line has the same value.
GuiMergeTest(line, hp, i) ==
    i + 1 < Len(line) /\ hp[line[i + 2]].value = hp[line[i + 1]].value

\* handle_line, the while loop from index i on with target_idx, appending to animations.
RECURSIVE GuiHandleFrom(_, _, _, _, _, _)
GuiHandleFrom(line, cells, hp, i, target_idx, animations) ==
    IF ~(i < Len(line)) THEN animations
    ELSE IF GuiMergeTest(line, hp, i)
         THEN GuiHandleFrom(line, cells, hp, i + 2, target_idx + 1,
                  animations \o <<GuiSetter(cells, hp, line[i + 1], target_idx, TRUE),
                                  GuiSetter(cells, hp, line[i + 2], target_idx, TRUE)>>)
         ELSE GuiHandleFrom(line, cells, hp, i + 1, target_idx + 1,
                  Append(animations, GuiSetter(cells, hp, line[i + 1], target_idx, FALSE)))

\* handle_line for line n of the direction: the tiles of the line, then the loop.
handle_line(grid, hp, direction, n, animations) ==
    LET cells == GuiLineCells(direction, n)
        at == [i \in 1 .. 4 |-> grid[cells[i][1]][cells[i][2]]]
        line == SelectSeq(at, LAMBDA t : t /= 0)
    IN  GuiHandleFrom(line, cells, hp, 0, 0, animations)

\* The loop over the rows or columns, from line n on.
RECURSIVE GuiLinesFrom(_, _, _, _, _)
GuiLinesFrom(grid, hp, direction, n, animations) ==
    IF n >= (IF direction \in {"left", "right"} THEN GUI_ROWS ELSE GUI_COLS) THEN animations
    ELSE GuiLinesFrom(grid, hp, direction, n + 1, handle_line(grid, hp, direction, n, animations))

\* The first finalization loop: every animated tile takes the row and the col its
\* dest_key names and is snapped to that cell.
RECURSIVE GuiSnapFrom(_, _, _)
GuiSnapFrom(animations, i, hp) ==
    IF i > Len(animations) THEN hp
    ELSE LET a == animations[i]
             t == [hp[a.tile] EXCEPT !.row = a.dest_key \div 10, !.col = a.dest_key % 10]
         IN  GuiSnapFrom(animations, i + 1, [hp EXCEPT ![a.tile] = set_xy_from_grid(t)])

\* The keys of the dict `landing`, in the order of their insertion.
RECURSIVE GuiLandingKeys(_, _, _)
GuiLandingKeys(animations, i, keys) ==
    IF i > Len(animations) THEN keys
    ELSE GuiLandingKeys(animations, i + 1,
             IF \E j \in 1 .. Len(keys) : keys[j] = animations[i].dest_key THEN keys
             ELSE Append(keys, animations[i].dest_key))

\* Fault injection: the survivor keeps its value.
GuiTotalOfSurvivor(items, i, hp) == hp[items[1].tile].value

\* total: the sum of the values of the tiles that landed on one cell, from item i on.
RECURSIVE GuiTotal(_, _, _)
GuiTotal(items, i, hp) ==
    IF i > Len(items) THEN 0
    ELSE hp[items[i].tile].value + GuiTotal(items, i + 1, hp)

\* The loop over landing.items() from key i on; acc holds result_tiles and the tiles.
RECURSIVE GuiLandFrom(_, _, _, _)
GuiLandFrom(animations, keys, i, acc) ==
    IF i > Len(keys) THEN acc
    ELSE LET k == keys[i]
             items == SelectSeq(animations, LAMBDA a : a.dest_key = k)
             survivor == items[1].tile
             put == [q \in DOMAIN acc.tiles \cup {k} |-> IF q = k THEN survivor ELSE acc.tiles[q]]
         IN  GuiLandFrom(animations, keys, i + 1,
                 IF Len(items) = 1 /\ ~items[1].is_merged
                 THEN [tiles |-> put, heap |-> acc.heap]
                 ELSE [tiles |-> put,
                       heap |-> [acc.heap EXCEPT
                                    ![survivor].value = GuiTotal(items, 1, acc.heap)]])

\* move_tiles up to its last statement: the animations, and the dict and the tiles
\* when `return end_move(tiles)` is reached (ended FALSE) or `return None` was taken
\* because animations is empty (ended TRUE).  A tile that no key of the dict refers
\* to any more is dropped from the heap.
GuiMoveTiles(direction, tls, hp) ==
    LET animations == GuiLinesFrom(GuiGrid(tls, hp), hp, direction, 0, <<>>)
        snapped == GuiSnapFrom(animations, 1, hp)
        landed == GuiLandFrom(animations, GuiLandingKeys(animations, 1, <<>>), 1,
                              [tiles |-> <<>>, heap |-> snapped])
        kept == {landed.tiles[k] : k \in DOMAIN landed.tiles}
    IN  IF animations = <<>>
        THEN [ended |-> TRUE, animations |-> animations, tiles |-> tls, heap |-> hp]
        ELSE [ended |-> FALSE, animations |-> animations, tiles |-> landed.tiles,
              heap |-> [j \in kept |-> landed.heap[j]]]

\* end_move, its test: the dict holds 16 tiles.
end_move_lost(tls, hp) == Cardinality(DOMAIN tls) = 16

\* One KEYDOWN event of a direction key in main(window): move_tiles, then end_move
\* unless move_tiles returned before.  ANIMATING is True only inside move_tiles.
MoveTiles(direction) ==
    /\ calls < MaxGuiKeys
    /\ ~main.ANIMATING
    /\ calls' = calls + 1
    /\ \E m \in {GuiMoveTiles(direction, tiles, heap)} :
           IF m.ended
           THEN /\ tiles' = m.tiles
                /\ heap' = m.heap
                /\ last' = [op |-> "move_tiles", direction |-> direction, animated |-> FALSE,
                            old_tiles |-> tiles, old_heap |-> heap,
                            ended |-> TRUE, moved_tiles |-> m.tiles, moved_heap |-> m.heap,
                            ret |-> "None"]
           ELSE IF end_move_lost(m.tiles, m.heap)
           THEN /\ tiles' = m.tiles
                /\ heap' = m.heap
                /\ last' = [op |-> "move_tiles", direction |-> direction, animated |-> FALSE,
                            old_tiles |-> tiles, old_heap |-> heap,
                            ended |-> FALSE, moved_tiles |-> m.tiles, moved_heap |-> m.heap,
                            ret |-> "lost"]
           ELSE \E p \in get_random_pos(m.tiles), value \in {2, 4} :
                    \E s \in {GuiPut(m.tiles, m.heap, p, value)} :
                        /\ tiles' = s.tiles
                        /\ heap' = s.heap
                        /\ last' = [op |-> "move_tiles", direction |-> direction,
                                    animated |-> FALSE,
                                    old_tiles |-> tiles, old_heap |-> heap,
                                    ended |-> FALSE, moved_tiles |-> m.tiles,
                                    moved_heap |-> m.heap, ret |-> "None"]
    /\ UNCHANGED <<pending_new_grid, pending_map, score, history, main, view, score_manager>>

\* The dict of a game in progress, built as main(window) builds it, by
\* tiles[f"{row}{col}"] = Tile(value, row, col) for the cells with vals[cell] /= 0,
\* in row-major order from i on.
RECURSIVE GuiBoard(_, _, _)
GuiBoard(vals, i, acc) ==
    IF i > Len(RowMajor) THEN acc
    ELSE GuiBoard(vals, i + 1,
             IF vals[RowMajor[i]] = 0 THEN acc
             ELSE GuiPut(acc.tiles, acc.heap, RowMajor[i], vals[RowMajor[i]]))

\* The other variables when main(window) waits for an event.
GuiAtRest ==
    /\ pending_new_grid = None
    /\ pending_map = None
    /\ score = 0
    /\ history = None
    /\ main = [ANIMATING |-> FALSE]
    /\ view = None
    /\ score_manager = None
    /\ last = [op |-> "init", animated |-> FALSE]
    /\ calls = 0

\* generate_tiles(): two tiles valued 2 on two distinct cells.
generate_tiles ==
    \E p1 \in get_random_pos(<<>>) :
        \E s1 \in {GuiPut(<<>>, <<>>, p1, 2)} :
            \E p2 \in get_random_pos(s1.tiles) :
                \E s2 \in {GuiPut(s1.tiles, s1.heap, p2, 2)} :
                    /\ tiles = s2.tiles
                    /\ heap = s2.heap
                    /\ GuiAtRest

\* A game in progress: between two and four tiles valued 2 or 4 along the first row
\* or the first column.
InitGuiLine ==
    \E axis \in {"row", "col"}, vals \in [1 .. GUI_COLS -> {0, 2, 4}] :
        /\ Cardinality({i \in 1 .. GUI_COLS : vals[i] /= 0}) >= 2
        /\ \E b \in {GuiBoard([q \in RowRange \X ColRange |->
                                  IF axis = "row" /\ q[1] = 0 THEN vals[q[2] + 1]
                                  ELSE IF axis = "col" /\ q[2] = 0 THEN vals[q[1] + 1]
                                  ELSE 0],
                              1, [tiles |-> <<>>, heap |-> <<>>])} :
               /\ tiles = b.tiles
               /\ heap = b.heap
               /\ GuiAtRest

InitGui == generate_tiles \/ InitGuiLine

NextGui == \E direction \in Directions : MoveTiles(direction)

SpecGui == InitGui /\ [][NextGui]_vars

\* A game near its end: every cell outside the first MaxSpawnCells cells holds a
\* tile, 8 and 2 alternating, each of the others holds a 2 or a 4 or, at most one
\* of them, is empty.
InitGuiFull ==
    \E box \in [SpawnCells -> {0, 2, 4}] :
        /\ Cardinality({q \in SpawnCells : box[q] = 0}) <= 1
        /\ \E b \in {GuiBoard([q \in RowRange \X ColRange |->
                                  IF q \in SpawnCells THEN box[q]
                                  ELSE IF (q[1] + q[2]) % 2 = 0 THEN 8 ELSE 2],
                              1, [tiles |-> <<>>, heap |-> <<>>])} :
               /\ tiles = b.tiles
               /\ heap = b.heap
               /\ GuiAtRest

SpecGuiFull == InitGuiFull /\ [][NextGui]_vars

(***************************************************************************)
(* Vocabulary of the properties.  These definitions state what the         *)
(* documentation says about grids and lines; they use neither the move     *)
(* algorithm above nor its helper definitions.                             *)
(***************************************************************************)
\* The value grid of a board: the value of the tile stored for each cell, 0 if none.
ValueGridOf(tls, hp) ==
    [r \in 0 .. 3 |-> [c \in 0 .. 3 |->
        IF (10 * r + c) \in DOMAIN tls THEN hp[tls[10 * r + c]].value ELSE 0]]

\* Line n of grid g, read from the destination edge of the direction.
TraversalLine(g, direction, n) ==
    CASE direction = "left" -> <<g[n][0], g[n][1], g[n][2], g[n][3]>>
      [] direction = "right" -> <<g[n][3], g[n][2], g[n][1], g[n][0]>>
      [] direction = "up" -> <<g[0][n], g[1][n], g[2][n], g[3][n]>>
      [] direction = "down" -> <<g[3][n], g[2][n], g[1][n], g[0][n]>>

NonZero(s) == SelectSeq(s, LAMBDA v : v /= 0)

\* Pairwise scan: two equal neighbours give one doubled value, else the value alone.
RECURSIVE Pairwise(_)
Pairwise(s) ==
    IF s = <<>> THEN <<>>
    ELSE IF Len(s) >= 2 /\ s[1] = s[2]
         THEN <<2 * s[1]>> \o Pairwise(Tail(Tail(s)))
         ELSE <<s[1]>> \o Pairwise(Tail(s))

\* A sequence of at most four values followed by empty cells.
PadLine(s) == [i \in 1 .. 4 |-> IF i <= Len(s) THEN s[i] ELSE 0]

RECURSIVE SumSeq(_)
SumSeq(s) == IF s = <<>> THEN 0 ELSE s[1] + SumSeq(Tail(s))

GridSum(g) == SumSeq([n \in 1 .. 4 |-> SumSeq(TraversalLine(g, "left", n - 1))])

GridCount(g) == Cardinality({p \in (0 .. 3) \X (0 .. 3) : g[p[1]][p[2]] /= 0})

\* A line, read from the destination edge, that a move cannot change.
PackedLine(s) ==
    /\ \A i \in 1 .. 3 : s[i] = 0 => s[i + 1] = 0
    /\ \A i \in 1 .. 3 : s[i] /= 0 => s[i] /= s[i + 1]

\* The step is a call of Board.move.
MoveStep == calls' = calls + 1 /\ last'.op = "move" /\ ~last'.animated

\* The step is a call of Board.finalize_move.
FinalizeStep == calls' = calls + 1 /\ last'.op = "finalize_move" /\ ~last'.animated

\* The latest call is a finalize_move that committed the grid of the move called right before it.
FinalizedAfterMove ==
    /\ last.op = "finalize_move"
    /\ last.committed
    /\ last.prev.op = "move"
    /\ last.prev.ret

\* The cells stored, the tiles stored in them, and every tile's value, row and col are unchanged.
GridUntouched ==
    /\ tiles' = tiles
    /\ DOMAIN heap' = DOMAIN heap
    /\ \A j \in DOMAIN heap :
           /\ heap'[j].value = heap[j].value
           /\ heap'[j].row = heap[j].row
           /\ heap'[j].col = heap[j].col

(***************************************************************************)
(* C1  Board.move(direction) returns True if and only if the value grid it *)
(* computes differs in at least one cell from the value grid before the    *)
(* call.                                                                   *)
(***************************************************************************)
C1_MoveReturnsTrueIffGridDiffers ==
    [][MoveStep =>
          (last'.ret <=> \E r \in 0 .. 3, c \in 0 .. 3 :
                             last'.new_grid[r][c] /= ValueGridOf(tiles, heap)[r][c])]_vars

\* A move that only slides tiles has returned True.
C1_Witness ==
    /\ last.op = "move"
    /\ last.ret
    /\ last.merges = 0
    /\ last.new_grid /= last.old_grid

(***************************************************************************)
(* C2  Every line computed by Board.move is the line's non-empty values    *)
(* read from the destination edge, scanned pairwise (two equal neighbours  *)
(* give one doubled value, otherwise the value alone), written to          *)
(* consecutive cells from the destination edge, the other cells empty.     *)
(***************************************************************************)
C2_LineIsPairwiseCollapse ==
    [][MoveStep =>
          \A n \in 0 .. 3 :
              TraversalLine(last'.new_grid, last'.direction, n)
                  = PadLine(Pairwise(NonZero(
                        TraversalLine(ValueGridOf(tiles, heap), last'.direction, n))))]_vars

\* A move toward the far edge of a line holding a gap, a merging pair and a single tile.
C2_Witness ==
    /\ last.op = "move"
    /\ last.direction \in {"right", "down"}
    /\ \E n \in 0 .. 3 :
           /\ TraversalLine(last.old_grid, last.direction, n)[1] = 0
           /\ Len(NonZero(TraversalLine(last.old_grid, last.direction, n))) = 3
           /\ Len(NonZero(TraversalLine(last.new_grid, last.direction, n))) = 2

(***************************************************************************)
(* C3  In one move every tile takes part in at most one merge and a merged *)
(* value is not merged again: at most two tiles travel to the same cell, a *)
(* line keeps at least half its tiles, 2,2,4 becomes 4,4 and 2,2,2,2       *)
(* becomes 4,4.                                                            *)
(***************************************************************************)
C3_NoChainedMerge ==
    [][MoveStep =>
          /\ \A n \in 0 .. 3 :
                 LET before == NonZero(TraversalLine(ValueGridOf(tiles, heap),
                                                     last'.direction, n))
                     after == NonZero(TraversalLine(last'.new_grid, last'.direction, n))
                 IN  /\ 2 * Len(after) >= Len(before)
                     /\ before = <<2, 2, 4>> => after = <<4, 4>>
                     /\ before = <<2, 2, 2, 2>> => after = <<4, 4>>
          /\ \A j \in DOMAIN heap' :
                 Cardinality({k \in DOMAIN heap' :
                     /\ heap'[k].anim_end_x = heap'[j].anim_end_x
                     /\ heap'[k].anim_end_y = heap'[j].anim_end_y}) <= 2]_vars

\* A move of a line holding 2,2,4 from the destination edge.
C3_Witness ==
    /\ last.op = "move"
    /\ \E n \in 0 .. 3 :
           /\ NonZero(TraversalLine(last.old_grid, last.direction, n)) = <<2, 2, 4>>
           /\ NonZero(TraversalLine(last.new_grid, last.direction, n)) = <<4, 4>>

(***************************************************************************)
(* C4  Three equal tiles v in a line: the two closest to the destination   *)
(* edge merge and the third stays unmerged in the next cell.  Left gives   *)
(* [2v, v, 0, 0], right gives [0, 0, v, 2v], and so for up and down.       *)
(***************************************************************************)
C4_ThreeEqualMergeNearestPair ==
    [][MoveStep =>
          \A n \in 0 .. 3 :
              LET before == NonZero(TraversalLine(ValueGridOf(tiles, heap),
                                                  last'.direction, n))
                  g == last'.new_grid
              IN  (Len(before) = 3 /\ before[1] = before[2] /\ before[2] = before[3]) =>
                      LET v == before[1]
                      IN  CASE last'.direction = "left" ->
                                   <<g[n][0], g[n][1], g[n][2], g[n][3]>> = <<2 * v, v, 0, 0>>
                            [] last'.direction = "right" ->
                                   <<g[n][0], g[n][1], g[n][2], g[n][3]>> = <<0, 0, v, 2 * v>>
                            [] last'.direction = "up" ->
                                   <<g[0][n], g[1][n], g[2][n], g[3][n]>> = <<2 * v, v, 0, 0>>
                            [] last'.direction = "down" ->
                                   <<g[0][n], g[1][n], g[2][n], g[3][n]>> = <<0, 0, v, 2 * v>>]_vars

\* A move down of a column holding exactly three equal tiles.
C4_Witness ==
    /\ last.op = "move"
    /\ last.direction = "down"
    /\ \E n \in 0 .. 3 :
           LET before == NonZero(TraversalLine(last.old_grid, "down", n))
           IN  Len(before) = 3 /\ before[1] = before[2] /\ before[2] = before[3]

(***************************************************************************)
(* C5  For a move that returned True, the sum of the tile values after     *)
(* finalize_move equals the sum before the move, and the number of tiles   *)
(* has decreased by exactly the number of merges.                          *)
(***************************************************************************)
C5_FinalizedMoveConservesSum ==
    FinalizedAfterMove =>
        /\ GridSum(ValueGridOf(tiles, heap)) = GridSum(last.prev.old_grid)
        /\ Cardinality(DOMAIN tiles) = GridCount(last.prev.old_grid) - last.prev.merges
        /\ Cardinality(DOMAIN heap) = Cardinality(DOMAIN tiles)

\* A finalized move in which two merges happened.
C5_Witness ==
    /\ FinalizedAfterMove
    /\ last.prev.merges = 2
    /\ Cardinality(DOMAIN tiles) = GridCount(last.prev.old_grid) - 2

(***************************************************************************)
(* C6  When every line is packed toward the direction and no two tiles     *)
(* adjacent along it are equal, move returns False and the grid is         *)
(* unchanged: the same cells hold the same tiles with the same value, row  *)
(* and col.                                                                *)
(***************************************************************************)
C6_PackedMoveIsNoOp ==
    [][(MoveStep /\ \A n \in 0 .. 3 :
            PackedLine(TraversalLine(ValueGridOf(tiles, heap), last'.direction, n)))
       => (~last'.ret /\ GridUntouched
             /\ ValueGridOf(tiles', heap') = ValueGridOf(tiles, heap))]_vars

\* A move returned False on a board with two different tiles next to each other in a line.
C6_Witness ==
    /\ last.op = "move"
    /\ ~last.ret
    /\ \A n \in 0 .. 3 : PackedLine(TraversalLine(last.old_grid, last.direction, n))
    /\ \E n \in 0 .. 3 :
           Len(NonZero(TraversalLine(last.old_grid, last.direction, n))) >= 2

(***************************************************************************)
(* C7  A move that returns False mutates nothing: the grid, every tile's   *)
(* animation fields (so has_animation() keeps its truth value) and the     *)
(* pending-move state are the same after the call as before it.            *)
(***************************************************************************)
C7_FalseMoveMutatesNothing ==
    [][(MoveStep /\ ~last'.ret) =>
          /\ GridUntouched
          /\ \A j \in DOMAIN heap :
                 /\ has_animation(heap'[j]) = has_animation(heap[j])
                 /\ heap'[j].anim_start_x = heap[j].anim_start_x
                 /\ heap'[j].anim_start_y = heap[j].anim_start_y
                 /\ heap'[j].anim_end_x = heap[j].anim_end_x
                 /\ heap'[j].anim_end_y = heap[j].anim_end_y
          /\ pending_new_grid' = pending_new_grid
          /\ pending_map' = pending_map]_vars

(***************************************************************************)
(* C8  Two-phase move: from a move that returned True until finalize_move, *)
(* the cell-to-tile map and every tile's value, row and col are what they  *)
(* were before the move; a merge survivor still shows its pre-merge value  *)
(* and the consumed tile is still present.                                 *)
(***************************************************************************)
C8_MoveDefersGridUpdate ==
    [][(last'.op = "move" /\ last'.ret) =>
          /\ GridUntouched
          /\ ValueGridOf(tiles', heap') = last'.old_grid
          /\ pending_new_grid' = last'.new_grid]_vars

\* A move with a merge has returned True and is not finalized.
C8_Witness ==
    /\ last.op = "move"
    /\ last.ret
    /\ last.merges >= 1
    /\ pending_new_grid = last.new_grid
    /\ ValueGridOf(tiles, heap) /= pending_new_grid

(***************************************************************************)
(* C9  After finalize_move following a move that returned True, every      *)
(* non-empty cell of the computed grid holds a tile with the computed      *)
(* value whose row and col are that cell, every empty cell holds no tile,  *)
(* and the pending-move state is cleared.                                  *)
(***************************************************************************)
C9_FinalizeCommitsComputedGrid ==
    FinalizedAfterMove =>
        /\ \A r \in 0 .. 3, c \in 0 .. 3 :
               IF last.prev.new_grid[r][c] /= 0
               THEN /\ (10 * r + c) \in DOMAIN tiles
                    /\ heap[tiles[10 * r + c]].value = last.prev.new_grid[r][c]
                    /\ heap[tiles[10 * r + c]].row = r
                    /\ heap[tiles[10 * r + c]].col = c
               ELSE (10 * r + c) \notin DOMAIN tiles
        /\ pending_new_grid = None
        /\ pending_map = None

\* A finalized move that moved a tile to another cell and merged a pair.
C9_Witness ==
    /\ FinalizedAfterMove
    /\ last.prev.merges >= 1
    /\ ValueGridOf(tiles, heap) = last.prev.new_grid
    /\ ValueGridOf(tiles, heap) /= last.prev.old_grid

(***************************************************************************)
(* C10  finalize_move with no move pending (fresh board, after a move that *)
(* returned False, or a second time after a finalize) changes nothing on   *)
(* the board and raises no error.                                          *)
(***************************************************************************)
C10_FinalizeWithoutPendingIsNoOp ==
    [][(FinalizeStep /\ (pending_new_grid = None \/ pending_map = None)) =>
          /\ UNCHANGED <<tiles, heap, pending_new_grid, pending_map>>
          /\ ~last'.raised
          /\ ~last'.committed]_vars

\* finalize_move was called a second time, right after a finalize_move that committed a move.
C10_Witness ==
    /\ last.op = "finalize_move"
    /\ ~last.committed
    /\ ~last.raised
    /\ last.prev.op = "finalize_move"
    /\ last.prev.committed

(***************************************************************************)
(* C11  A move that was not finalized is discarded by the next call of     *)
(* move: the finalize_move that follows a call of move commits the grid    *)
(* computed by that call when it returned True, and commits nothing when   *)
(* it returned False; it never commits the grid of an earlier move.        *)
(***************************************************************************)
C11_NextMoveDiscardsPending ==
    [][(FinalizeStep /\ last.op = "move") =>
          IF last.ret
          THEN ValueGridOf(tiles', heap') = last.new_grid
          ELSE /\ ~last'.committed
               /\ ValueGridOf(tiles', heap') = ValueGridOf(tiles, heap)]_vars

\* The cell, counted from 1 at the destination edge, where the tile of cell (r, c) lands:
\* the number of values the pairwise scan gives for the line up to and including that tile.
LandingSlot(g, direction, r, c) ==
    LET n == IF direction \in {"left", "right"} THEN r ELSE c
        pos == CASE direction = "left" -> c + 1
                 [] direction = "right" -> 4 - c
                 [] direction = "up" -> r + 1
                 [] direction = "down" -> 4 - r
    IN  Len(Pairwise(NonZero(SubSeq(TraversalLine(g, direction, n), 1, pos))))

\* The cell where the tile of cell (r, c) lands.
LandingCell(g, direction, r, c) ==
    LET slot == LandingSlot(g, direction, r, c)
    IN  CASE direction = "left" -> <<r, slot - 1>>
          [] direction = "right" -> <<r, 4 - slot>>
          [] direction = "up" -> <<slot - 1, c>>
          [] direction = "down" -> <<4 - slot, c>>

(***************************************************************************)
(* C12  After a move that returned True every tile that was on the board   *)
(* carries motion data: its start is the tile's cell before the move, its  *)
(* end is the cell where the tile lands.  Every non-empty cell of the      *)
(* computed grid is the end of the tiles whose values add up to its value  *)
(* (one tile, or the two tiles of a merge), and no tile ends on an empty   *)
(* cell: merging tiles share their end and no other two tiles do.          *)
(***************************************************************************)
C12_MotionDataForEveryTile ==
    [][(MoveStep /\ last'.ret) =>
          /\ \A k \in DOMAIN tiles :
                 LET t == heap'[tiles[k]]
                     dest == LandingCell(ValueGridOf(tiles, heap), last'.direction,
                                         k \div 10, k % 10)
                 IN  /\ t.anim_start_x = <<GRID_X(k % 10)>>
                     /\ t.anim_start_y = <<GRID_Y(k \div 10)>>
                     /\ t.anim_end_x = <<GRID_X(dest[2])>>
                     /\ t.anim_end_y = <<GRID_Y(dest[1])>>
          /\ \A r \in 0 .. 3, c \in 0 .. 3 :
                 LET ending == {k \in DOMAIN tiles :
                                   /\ heap'[tiles[k]].anim_end_x = <<GRID_X(c)>>
                                   /\ heap'[tiles[k]].anim_end_y = <<GRID_Y(r)>>}
                 IN  /\ Cardinality(ending) =
                            (IF last'.new_grid[r][c] = 0 THEN 0
                             ELSE IF \E k \in ending : heap[tiles[k]].value = last'.new_grid[r][c]
                                  THEN 1 ELSE 2)
                     /\ \A k \in ending :
                            Cardinality(ending) * heap[tiles[k]].value = last'.new_grid[r][c]]_vars

\* A move returned True on a line of four tiles where two merge and two slide unmerged.
C12_Witness ==
    /\ last.op = "move"
    /\ last.ret
    /\ last.merges = 1
    /\ Cardinality(DOMAIN tiles) = 4
    /\ \A k \in DOMAIN tiles : has_animation(heap[tiles[k]])
    /\ \E k \in DOMAIN tiles :
           heap[tiles[k]].anim_end_x /= heap[tiles[k]].anim_start_x
             \/ heap[tiles[k]].anim_end_y /= heap[tiles[k]].anim_start_y

\* No cell of the grid is empty.
GridFull(g) == \A r \in 0 .. 3, c \in 0 .. 3 : g[r][c] /= 0

\* Two horizontally or vertically adjacent cells hold tiles of the same value.
AdjacentEqual(g) ==
    \/ \E r \in 0 .. 3, c \in 0 .. 2 : g[r][c] /= 0 /\ g[r][c] = g[r][c + 1]
    \/ \E r \in 0 .. 2, c \in 0 .. 3 : g[r][c] /= 0 /\ g[r][c] = g[r + 1][c]

(***************************************************************************)
(* C13  is_game_over returns True if and only if all 16 cells hold a tile  *)
(* and no two horizontally or vertically adjacent tiles have the same      *)
(* value; it returns False whenever a cell is empty.                       *)
(***************************************************************************)
C13_GameOverIffFullAndNoEqualNeighbours ==
    last.op = "is_game_over" =>
        /\ last.ret <=> (GridFull(ValueGridOf(tiles, heap))
                           /\ ~AdjacentEqual(ValueGridOf(tiles, heap)))
        /\ Cardinality(DOMAIN tiles) < 16 => ~last.ret

\* is_game_over returned True on a full board.
C13_Witness ==
    /\ last.op = "is_game_over"
    /\ last.ret
    /\ Cardinality(DOMAIN tiles) = 16

(***************************************************************************)
(* C14  On a board with no pending move, is_game_over() is True if and     *)
(* only if move(d) returns False for each of the four directions d.        *)
(***************************************************************************)
C14_GameOverIffNoMoveChangesBoard ==
    (pending_new_grid = None /\ pending_map = None) =>
        (is_game_over(tiles, heap) <=>
            \A d \in {"left", "right", "up", "down"} : ~MoveCompute(d, tiles, heap).changed)

\* A full board on which is_game_over returned True and no move is pending.
C14_Witness ==
    /\ last.op = "is_game_over"
    /\ last.ret
    /\ pending_new_grid = None
    /\ is_game_over(tiles, heap)
    /\ ~MoveCompute("left", tiles, heap).changed
    /\ ~MoveCompute("down", tiles, heap).changed

\* The step is a call of Board.spawn_random.
SpawnStep == calls' = calls + 1 /\ last'.op = "spawn_random" /\ ~last'.animated

(***************************************************************************)
(* C15  spawn_random never places a tile on an occupied cell.  With an     *)
(* empty cell on the board it adds exactly one new tile, in a cell that    *)
(* was empty, and every existing tile keeps its cell and its value; with   *)
(* no empty cell it changes nothing.                                       *)
(***************************************************************************)
C15_SpawnRespectsOccupancy ==
    [][SpawnStep =>
          IF Cardinality(DOMAIN tiles) < 16
          THEN /\ \E k \in DOMAIN tiles' :
                      /\ k \notin DOMAIN tiles
                      /\ DOMAIN tiles' = DOMAIN tiles \cup {k}
                      /\ tiles'[k] \notin DOMAIN heap
                      /\ heap'[tiles'[k]].row = k \div 10
                      /\ heap'[tiles'[k]].col = k % 10
               /\ \A q \in DOMAIN tiles :
                      /\ tiles'[q] = tiles[q]
                      /\ heap'[tiles[q]] = heap[tiles[q]]
          ELSE UNCHANGED <<tiles, heap, pending_new_grid, pending_map>>]_vars

\* spawn_random has filled the last empty cell: the board is full and a tile of the
\* upper rows is younger than a tile of the lower rows.
C15_Witness ==
    /\ last.op = "spawn_random"
    /\ Cardinality(DOMAIN tiles) = 16
    /\ \E k1, k2 \in DOMAIN tiles : k1 < k2 /\ tiles[k1] > tiles[k2]

(***************************************************************************)
(* C16  A newly constructed Board holds exactly two tiles, in two distinct *)
(* cells, each with value 2 or 4, and has no pending move.                 *)
(***************************************************************************)
C16_NewBoardHoldsTwoTiles ==
    calls = 0 =>
        /\ Cardinality(DOMAIN tiles) = 2
        /\ Cardinality({tiles[k] : k \in DOMAIN tiles}) = 2
        /\ \A k \in DOMAIN tiles :
               /\ heap[tiles[k]].value \in {2, 4}
               /\ k \div 10 \in 0 .. 3
               /\ k % 10 \in 0 .. 3
               /\ heap[tiles[k]].row = k \div 10
               /\ heap[tiles[k]].col = k % 10
        /\ pending_new_grid = None
        /\ pending_map = None

\* A new board whose two tiles are a 2 and a 4.
C16_Witness ==
    /\ calls = 0
    /\ last.op = "init"
    /\ {heap[tiles[k]].value : k \in DOMAIN tiles} = {2, 4}

\* v is a power of two that is at least 2.
PowerOfTwo(v) == \E e \in 1 .. 17 : v = 2 ^ e

\* Tile j is on the board before and after the step, and a tile of its value that
\* shared its row or column is no longer on the board after the step.
SurvivedMerge(j) ==
    /\ j \in {tiles'[k] : k \in DOMAIN tiles'}
    /\ \E k \in DOMAIN tiles :
           /\ tiles[k] /= j
           /\ tiles[k] \notin {tiles'[q] : q \in DOMAIN tiles'}
           /\ heap[tiles[k]].value = heap[j].value
           /\ (heap[tiles[k]].row = heap[j].row \/ heap[tiles[k]].col = heap[j].col)

(***************************************************************************)
(* C17  In every state reached from a new Board by move, finalize_move and *)
(* spawn_random() every tile's value is a power of two, at least 2; the    *)
(* value of an existing tile changes only by doubling, only in             *)
(* finalize_move, and only for a tile that survived a merge.               *)
(***************************************************************************)
C17_ValuesArePowersOfTwoAndOnlyDouble ==
    [][/\ \A j \in DOMAIN heap : PowerOfTwo(heap[j].value)
       /\ \A j \in DOMAIN heap' : PowerOfTwo(heap'[j].value)
       /\ \A j \in DOMAIN heap \cap DOMAIN heap' :
              heap'[j].value /= heap[j].value =>
                  /\ heap'[j].value = 2 * heap[j].value
                  /\ FinalizeStep
                  /\ last'.committed
                  /\ SurvivedMerge(j)]_vars

\* A finalized move after which the survivor of a merge of two 4s shows 8.
C17_Witness ==
    /\ FinalizedAfterMove
    /\ last.prev.merges = 1
    /\ \E r \in 0 .. 3, c \in 0 .. 3 :
           /\ last.prev.new_grid[r][c] = 8
           /\ (10 * r + c) \in DOMAIN tiles
           /\ heap[tiles[10 * r + c]].value = 8

(***************************************************************************)
(* C18  At rest (after construction, after spawn_random and after          *)
(* finalize_move) no two tiles occupy the same cell: each tile is stored   *)
(* under the key of its own row and col, both within 0..3, and no tile     *)
(* object is stored under two cells.                                       *)
(***************************************************************************)
C18_OneTilePerCellAtRest ==
    last.op \in {"init", "spawn_random", "finalize_move"} =>
        /\ \A k \in DOMAIN tiles :
               /\ heap[tiles[k]].row \in 0 .. 3
               /\ heap[tiles[k]].col \in 0 .. 3
               /\ k = 10 * heap[tiles[k]].row + heap[tiles[k]].col
        /\ \A k1, k2 \in DOMAIN tiles : tiles[k1] = tiles[k2] => k1 = k2
        /\ \A k1, k2 \in DOMAIN tiles :
               (heap[tiles[k1]].row = heap[tiles[k2]].row
                  /\ heap[tiles[k1]].col = heap[tiles[k2]].col) => k1 = k2

\* At rest after a finalized move that slid two tiles to other cells without merging them.
C18_Witness ==
    /\ FinalizedAfterMove
    /\ last.prev.merges = 0
    /\ Cardinality(DOMAIN tiles) >= 2
    /\ \A r \in 0 .. 3, c \in 0 .. 3 :
           last.prev.old_grid[r][c] /= 0 => (10 * r + c) \notin DOMAIN tiles
    /\ \A k \in DOMAIN tiles : k = 10 * heap[tiles[k]].row + heap[tiles[k]].col

\* The doubled values of the merges of the pairwise scan, added up.
RECURSIVE PairGain(_)
PairGain(s) ==
    IF Len(s) < 2 THEN 0
    ELSE IF s[1] = s[2]
         THEN 2 * s[1] + PairGain(Tail(Tail(s)))
         ELSE PairGain(Tail(s))

\* The doubled values of all merges of a move of grid g in a direction.
MoveGain(g, direction) ==
    SumSeq([i \in 1 .. 4 |-> PairGain(NonZero(TraversalLine(g, direction, i - 1)))])

(***************************************************************************)
(* C19  A finalized move increases the score by exactly the sum of the     *)
(* doubled values of its merges, once per merge: from a row [2,2,0,0] move *)
(* left returns True, gives [4,0,0,0] and the score rises by 4; a move     *)
(* without a merge leaves the score unchanged.                             *)
(***************************************************************************)
C19_ScoreRisesByMergedValues ==
    [][(FinalizeStep /\ last.op = "move" /\ last.ret) =>
          /\ score' = score + MoveGain(last.old_grid, last.direction)
          /\ last.merges = 0 => score' = score
          /\ \A n \in 0 .. 3 :
                 (last.direction = "left"
                    /\ TraversalLine(last.old_grid, "left", n) = <<2, 2, 0, 0>>)
                 => /\ TraversalLine(ValueGridOf(tiles', heap'), "left", n) = <<4, 0, 0, 0>>
                    /\ score' >= score + 4]_vars

\* The row [2,2,0,0] was moved left and finalized: the row is [4,0,0,0], the score 4.
C19_Witness ==
    /\ FinalizedAfterMove
    /\ last.prev.direction = "left"
    /\ TraversalLine(last.prev.old_grid, "left", 0) = <<2, 2, 0, 0>>
    /\ TraversalLine(ValueGridOf(tiles, heap), "left", 0) = <<4, 0, 0, 0>>
    /\ last.score_before = 0
    /\ score = 4

\* The step is a call of board.undo.
UndoStep == calls' = calls + 1 /\ last'.op = "undo" /\ ~last'.animated

(***************************************************************************)
(* C20  Undo round trip: after a move that returned True and its           *)
(* finalize_move, undo returns True and leaves the grid and the score      *)
(* equal to the grid and the score before the move.                        *)
(***************************************************************************)
C20_UndoRoundTrip ==
    [][(UndoStep /\ FinalizedAfterMove) =>
          /\ last'.ret
          /\ ValueGridOf(tiles', heap') = last.prev.old_grid
          /\ score' = last.score_before]_vars

\* A move that merged two tiles was finalized and undone: two tiles again, the score as before.
C20_Witness ==
    /\ last.op = "undo"
    /\ last.ret
    /\ last.prev.op = "finalize_move"
    /\ last.prev.committed
    /\ last.prev.prev.op = "move"
    /\ last.prev.prev.merges = 1
    /\ ValueGridOf(tiles, heap) = last.prev.prev.old_grid
    /\ Cardinality(DOMAIN tiles) = 2
    /\ score = last.prev.score_before

C22_ResetGivesNewBoard ==
    last.op = "reset" =>
        /\ Cardinality(DOMAIN tiles) = 2
        /\ Cardinality({tiles[k] : k \in DOMAIN tiles}) = 2
        /\ \A k \in DOMAIN tiles :
               /\ heap[tiles[k]].value \in {2, 4}
               /\ heap[tiles[k]].row = k \div 10
               /\ heap[tiles[k]].col = k % 10
               /\ heap[tiles[k]].anim_start_x = <<>>
               /\ heap[tiles[k]].anim_end_x = <<>>
        /\ DOMAIN heap = {tiles[k] : k \in DOMAIN tiles}
        /\ score = 0
        /\ history = <<>>
        /\ pending_new_grid = <<>>
        /\ pending_map = <<>>

\* reset was called while a move was pending: two tiles, one of them a 4, nothing pending.
C22_Witness ==
    /\ last.op = "reset"
    /\ last.was_pending
    /\ Cardinality(DOMAIN tiles) = 2
    /\ \E k \in DOMAIN tiles : heap[tiles[k]].value = 4
    /\ pending_new_grid = <<>>

\* The step is a call of board.has_won.
HasWonStep == calls' = calls + 1 /\ last'.op = "has_won" /\ ~last'.animated

(***************************************************************************)
(* C23  has_won() is True once a tile on the board has reached 2048, and a *)
(* True has_won() does not block play: a move on such a board still        *)
(* computes every line as the pairwise collapse, finalize_move still       *)
(* commits it and spawn_random still adds a tile.                          *)
(***************************************************************************)
C23_HasWonOnce2048 ==
    [][/\ (HasWonStep /\ \E k \in DOMAIN tiles : heap[tiles[k]].value >= 2048) =>
              (~last'.raised /\ last'.ret = TRUE)
       /\ (MoveStep /\ \E k \in DOMAIN tiles : heap[tiles[k]].value >= 2048) =>
              \A n \in 0 .. 3 :
                  TraversalLine(last'.new_grid, last'.direction, n)
                      = PadLine(Pairwise(NonZero(
                            TraversalLine(ValueGridOf(tiles, heap), last'.direction, n))))
       /\ (FinalizeStep /\ last.op = "move" /\ last.ret) =>
              ValueGridOf(tiles', heap') = last.new_grid
       /\ (SpawnStep /\ Cardinality(DOMAIN tiles) < 16) =>
              Cardinality(DOMAIN tiles') = Cardinality(DOMAIN tiles) + 1]_vars

\* The step is the game loop's handling of one direction key.
KeyStep == calls' = calls + 1 /\ last'.op = "keydown"

\* The cells in which the grid h holds something else than the grid g.
CellsChanged(g, h) == {q \in (0 .. 3) \X (0 .. 3) : g[q[1]][q[2]] /= h[q[1]][q[2]]}

(***************************************************************************)
(* C24  In the game loop a direction key whose move returns True is        *)
(* followed, within the handling of that key, by finalize_move and then    *)
(* exactly one spawn_random: when the handling ends the board holds the    *)
(* grid the move computed plus exactly one tile, a 2 or a 4, in a cell     *)
(* that grid left empty, and no move is pending.  A direction key whose    *)
(* move returns False triggers neither: the tiles of the board, their      *)
(* values and the pending fields stay as they were.                        *)
(***************************************************************************)
C24_KeyMovesThenFinalizesThenSpawnsOnce ==
    [][(KeyStep /\ last'.played) =>
          IF last'.moved
          THEN /\ pending_new_grid' = None
               /\ pending_map' = None
               /\ ~main'.ANIMATING
               /\ \E q \in (0 .. 3) \X (0 .. 3) :
                      /\ CellsChanged(last'.new_grid, ValueGridOf(tiles', heap')) = {q}
                      /\ last'.new_grid[q[1]][q[2]] = 0
                      /\ ValueGridOf(tiles', heap')[q[1]][q[2]] \in {2, 4}
          ELSE /\ tiles' = tiles
               /\ ValueGridOf(tiles', heap') = ValueGridOf(tiles, heap)
               /\ UNCHANGED <<pending_new_grid, pending_map>>]_vars

\* A key was handled whose move changed the board: the board holds one tile more than
\* the grid of the move.
C24_Witness ==
    /\ last.op = "keydown"
    /\ last.played
    /\ last.moved
    /\ Cardinality(DOMAIN tiles)
           = Cardinality({q \in (0 .. 3) \X (0 .. 3) : last.new_grid[q[1]][q[2]] /= 0}) + 1

(***************************************************************************)
(* C25  In the game loop is_game_over is evaluated once the handling of    *)
(* the key has finalized the move and spawned the tile, never between the  *)
(* move and the spawn: after a key of the gameplay branch the game-over    *)
(* flag is set exactly when the board, spawned tile included, is full and  *)
(* has no two adjacent equal tiles.                                        *)
(***************************************************************************)
C25_GameOverJudgedAfterSpawn ==
    [][(KeyStep /\ last'.played) =>
          (main'.game_over <=>
              /\ GridFull(ValueGridOf(tiles', heap'))
              /\ ~AdjacentEqual(ValueGridOf(tiles', heap')))]_vars

\* A key moved the tiles, the spawn filled the last empty cell and the game is over.
C25_Witness ==
    /\ last.op = "keydown"
    /\ last.played
    /\ last.moved
    /\ main.game_over
    /\ Cardinality(DOMAIN tiles) = 16

(***************************************************************************)
(* C26  If move(d) returns False, then move(d) called again at once, with  *)
(* no call in between, returns False again; the grid is still the grid     *)
(* from before the first of the two calls and nothing is pending that was  *)
(* not pending before.                                                     *)
(***************************************************************************)
C26_RepeatedNoOpMoveReturnsFalse ==
    [][(/\ MoveStep
        /\ last.op = "move"
        /\ ~last.animated
        /\ ~last.ret
        /\ last'.direction = last.direction) =>
          /\ ~last'.ret
          /\ tiles' = tiles
          /\ ValueGridOf(tiles', heap') = last.old_grid
          /\ UNCHANGED <<pending_new_grid, pending_map>>]_vars

\* move(d) was called right after a move(d) that returned False, on a board with tiles,
\* and returned False.
C26_Witness ==
    /\ last.op = "move"
    /\ "again" \in DOMAIN last
    /\ ~last.ret
    /\ DOMAIN tiles /= {}
    /\ \E k \in DOMAIN tiles : has_animation(heap[tiles[k]])

(***************************************************************************)
(* C27  get_tiles returns a read-only snapshot: what one call of get_tiles *)
(* returned still describes the tiles (value, row, col, x, y of each) as   *)
(* they were at the time of that call, whatever spawn_random, move,        *)
(* animate or finalize_move did to the board afterwards.                   *)
(***************************************************************************)
C27_GetTilesIsSnapshot ==
    view /= None => ViewRead(view[1], tiles, heap) = view[1].at_call

\* The keys of the cells of grid g that hold a value.
NonEmptyKeys(g) ==
    {10 * q[1] + q[2] : q \in {p \in (0 .. 3) \X (0 .. 3) : g[p[1]][p[2]] /= 0}}

(***************************************************************************)
(* C28  Whenever finalize_move runs with a move pending, the keys of the   *)
(* pending destination map are exactly the non-empty cells of the pending  *)
(* grid, so the fallback branch that creates a fresh Tile is never taken:  *)
(* every tile of the board after the call is the tile the map recorded for *)
(* its cell.                                                               *)
(***************************************************************************)
C28_PendingMapCoversPendingGrid ==
    [][(FinalizeStep /\ ~NothingPending(pending_new_grid, pending_map)) =>
          /\ DOMAIN pending_map = NonEmptyKeys(pending_new_grid)
          /\ DOMAIN tiles' = DOMAIN pending_map
          /\ \A k \in DOMAIN tiles' : tiles'[k] = pending_map[k]]_vars

\* finalize_move committed a move that left two or more tiles on the board.
C28_Witness ==
    /\ last.op = "finalize_move"
    /\ last.committed
    /\ Cardinality(DOMAIN tiles) >= 2
    /\ pending_new_grid = None

\* The cells of line n, counted from the edge the direction moves the tiles to.
TraversalCells(direction, n) ==
    CASE direction = "left" -> <<<<n, 0>>, <<n, 1>>, <<n, 2>>, <<n, 3>>>>
      [] direction = "right" -> <<<<n, 3>>, <<n, 2>>, <<n, 1>>, <<n, 0>>>>
      [] direction = "up" -> <<<<0, n>>, <<1, n>>, <<2, n>>, <<3, n>>>>
      [] direction = "down" -> <<<<3, n>>, <<2, n>>, <<1, n>>, <<0, n>>>>

\* The positions in the sequence s of values, from position i on, at which the pairwise
\* scan finds the first of two equal neighbours.
RECURSIVE PairStarts(_, _)
PairStarts(s, i) ==
    IF i >= Len(s) THEN {}
    ELSE IF s[i] = s[i + 1] THEN {i} \cup PairStarts(s, i + 2)
         ELSE PairStarts(s, i + 1)

\* The pairs <<near, far>> of tiles that a move in the direction merges on the board
\* tls, hp: near is the tile of the pair closer to the destination edge.
MergedPairs(direction, tls, hp) ==
    UNION {LET occupied == SelectSeq(TraversalCells(direction, n),
                                     LAMBDA q : (10 * q[1] + q[2]) \in DOMAIN tls)
               ids == [i \in 1 .. Len(occupied) |-> tls[10 * occupied[i][1] + occupied[i][2]]]
               vals == [i \in 1 .. Len(ids) |-> hp[ids[i]].value]
           IN  {<<ids[i], ids[i + 1]>> : i \in PairStarts(vals, 1)} : n \in 0 .. 3}

(***************************************************************************)
(* C29  After a merge is finalized the tile kept on the board is the one   *)
(* of the pair that was closer to the destination edge before the move,    *)
(* now with the doubled value, and the other tile of the pair is in no     *)
(* cell of the board.                                                      *)
(***************************************************************************)
C29_MergeKeepsTileNearerTheEdge ==
    [][(FinalizeStep /\ last.op = "move" /\ last.ret /\ ~last.animated) =>
          \A pair \in MergedPairs(last.direction, tiles, heap) :
              /\ \E k \in DOMAIN tiles' : tiles'[k] = pair[1]
              /\ heap'[pair[1]].value = 2 * heap[pair[1]].value
              /\ \A k \in DOMAIN tiles' : tiles'[k] /= pair[2]]_vars

\* A move that merged a pair was finalized: the board holds fewer tiles than before it.
C29_Witness ==
    /\ FinalizedAfterMove
    /\ last.prev.merges >= 1
    /\ Cardinality(DOMAIN tiles)
           < Cardinality({q \in (0 .. 3) \X (0 .. 3) : last.prev.old_grid[q[1]][q[2]] /= 0})

\* The Animation records among `animations` whose tile is j.
RecordsOf(animations, j) == {i \in 1 .. Len(animations) : animations[i].tile = j}

\* The end position that names the cell <<r, c>>: c cells to the right, r cells down.
EndAtCell(q) == <<q[2] * RECT_WIDTH, q[1] * RECT_HEIGHT>>

(***************************************************************************)
(* C30  For the value grid of the board and each of the four directions,   *)
(* Board._apply_move produces exactly one Animation record per tile        *)
(* present before the move, the two records of a merge have the same end   *)
(* position, and each record's end position is the cell where that tile    *)
(* lands under the move.                                                   *)
(***************************************************************************)
C30_ApplyMoveAnimatesEveryTileToItsCell ==
    last.op = "apply_move" =>
        /\ Len(last.animations) = Cardinality(DOMAIN tiles)
        /\ \A k \in DOMAIN tiles : Cardinality(RecordsOf(last.animations, tiles[k])) = 1
        /\ \A pair \in MergedPairs(last.direction, tiles, heap) :
               \A i \in RecordsOf(last.animations, pair[1]),
                  j \in RecordsOf(last.animations, pair[2]) :
                   last.animations[i].end = last.animations[j].end
        /\ \A i \in 1 .. Len(last.animations) :
               last.animations[i].end
                   = EndAtCell(LandingCell(last.grid, last.direction,
                                           heap[last.animations[i].tile].row,
                                           heap[last.animations[i].tile].col))

\* The step is the handling of one direction key by main(window) of GUI.py.
GuiKeyStep == calls' = calls + 1 /\ last'.op = "move_tiles" /\ ~last'.animated

\* No line of grid g can change under the direction: every tile is at its
\* destination cell and no two neighbours along the direction are equal.
NothingToMove(g, direction) == \A n \in 0 .. 3 : PackedLine(TraversalLine(g, direction, n))

(***************************************************************************)
(* C31  In GUI.py a direction key whose move moves no tile (every tile is  *)
(* at its destination cell and nothing merges) leaves the tile map as it   *)
(* was: no tile is added, none changes.                                    *)
(***************************************************************************)
C31_NoOpMoveLeavesTileMap ==
    [][(GuiKeyStep /\ NothingToMove(ValueGridOf(tiles, heap), last'.direction))
          => (tiles' = tiles /\ heap' = heap)]_vars

(***************************************************************************)
(* C32  In GUI.py end_move returns "lost" only when the grid is full and   *)
(* no two horizontally or vertically adjacent tiles have the same value: a *)
(* full grid holding an adjacent equal pair is not reported as lost.       *)
(***************************************************************************)
C32_LostOnlyWithoutEqualNeighbours ==
    (last.op = "move_tiles" /\ last.ret = "lost")
        => (GridFull(ValueGridOf(tiles, heap)) /\ ~AdjacentEqual(ValueGridOf(tiles, heap)))

(***************************************************************************)
(* C33  For a value grid and a direction, the grid Board.move computes     *)
(* while it tracks the tiles equals the grid the value-only                *)
(* Board._apply_move_simple returns for the same grid and direction.       *)
(***************************************************************************)
\* The latest call is _apply_move_simple, called right after Board.move with the
\* same direction on the same value grid.
SimpleAfterMove ==
    /\ last.op = "apply_move_simple"
    /\ last.prev.op = "move"
    /\ ~last.prev.animated
    /\ last.prev.direction = last.direction
    /\ last.prev.old_grid = last.grid

C33_MoveGridIsSimpleGrid == SimpleAfterMove => last.new_grid = last.prev.new_grid

\* The case: a downward move in which two tiles merge and a third one slides.
C33_Witness ==
    /\ SimpleAfterMove
    /\ last.direction = "down"
    /\ last.prev.ret
    /\ last.new_grid = last.prev.new_grid
    /\ GridSum(last.new_grid) = GridSum(last.grid)
    /\ GridCount(last.grid) = 3
    /\ GridCount(last.new_grid) = 2

(***************************************************************************)
(* C34  For a starting grid and a direction in which at least one tile     *)
(* moves or merges, the value grid GUI.py's move_tiles leaves before its   *)
(* spawn equals the value grid Board.move followed by finalize_move leaves *)
(* from the same starting grid and direction.                              *)
(***************************************************************************)
\* The value grid a Board holding the grid g has after move(direction) and finalize_move.
BoardGridAfter(g, direction) ==
    LET b == SpawnGrid([q \in RowRange \X ColRange |-> g[q[1]][q[2]]], 1,
                       [tiles |-> <<>>, heap |-> <<>>])
        m == MoveCompute(direction, b.tiles, b.heap)
        f == IF m.changed THEN FinalizeCompute(m.new_grid, m.dest_map, m.heap)
             ELSE [tiles |-> b.tiles, heap |-> m.heap]
    IN  ValueGridOf(f.tiles, f.heap)

\* The latest key of GUI.py was a direction in which a tile moved or merged.
GuiKeyMoved ==
    /\ last.op = "move_tiles"
    /\ ~NothingToMove(ValueGridOf(last.old_tiles, last.old_heap), last.direction)

C34_GuiGridIsBoardGrid ==
    GuiKeyMoved =>
        ValueGridOf(last.moved_tiles, last.moved_heap)
            = BoardGridAfter(ValueGridOf(last.old_tiles, last.old_heap), last.direction)

\* The case: a move to the right in which two tiles merged and another tile was kept.
C34_Witness ==
    /\ GuiKeyMoved
    /\ last.direction = "right"
    /\ GridCount(ValueGridOf(last.old_tiles, last.old_heap)) = 3
    /\ GridCount(ValueGridOf(last.moved_tiles, last.moved_heap)) = 2
    /\ GridSum(ValueGridOf(last.moved_tiles, last.moved_heap))
           = GridSum(ValueGridOf(last.old_tiles, last.old_heap))
    /\ ValueGridOf(last.moved_tiles, last.moved_heap)
           = BoardGridAfter(ValueGridOf(last.old_tiles, last.old_heap), last.direction)

(***************************************************************************)
(* C35  The four directions of Board.move are mirror images of one         *)
(* another: moving right on a grid gives the horizontal mirror of moving   *)
(* left on the horizontally mirrored grid, moving down gives the vertical  *)
(* mirror of moving up on the vertically mirrored grid, and moving up      *)
(* gives the transpose of moving left on the transposed grid; the boolean  *)
(* result is the same in each pair.                                        *)
(***************************************************************************)
MirrorH(g) == [r \in 0 .. 3 |-> [c \in 0 .. 3 |-> g[r][3 - c]]]

MirrorV(g) == [r \in 0 .. 3 |-> [c \in 0 .. 3 |-> g[3 - r][c]]]

Transposed(g) == [r \in 0 .. 3 |-> [c \in 0 .. 3 |-> g[c][r]]]

\* The grid and the result of move(direction) on a new Board holding the grid g.
BoardMoveOn(g, direction) ==
    LET b == SpawnGrid([q \in RowRange \X ColRange |-> g[q[1]][q[2]]], 1,
                       [tiles |-> <<>>, heap |-> <<>>])
        m == MoveCompute(direction, b.tiles, b.heap)
    IN  [new_grid |-> m.new_grid, ret |-> m.changed]

\* The latest move agrees with the move it mirrors.
MirrorsAgree ==
    CASE last.direction = "right" ->
            LET o == BoardMoveOn(MirrorH(last.old_grid), "left")
            IN  last.new_grid = MirrorH(o.new_grid) /\ last.ret = o.ret
      [] last.direction = "down" ->
            LET o == BoardMoveOn(MirrorV(last.old_grid), "up")
            IN  last.new_grid = MirrorV(o.new_grid) /\ last.ret = o.ret
      [] last.direction = "up" ->
            LET o == BoardMoveOn(Transposed(last.old_grid), "left")
            IN  last.new_grid = Transposed(o.new_grid) /\ last.ret = o.ret
      [] last.direction = "left" ->
            LET o == BoardMoveOn(MirrorH(last.old_grid), "right")
            IN  last.new_grid = MirrorH(o.new_grid) /\ last.ret = o.ret

C35_DirectionsAreMirrorImages == last.op = "move" => MirrorsAgree

\* The case: a downward move that merged a pair on a grid that is not its own mirror.
C35_Witness ==
    /\ last.op = "move"
    /\ last.direction = "down"
    /\ last.ret
    /\ last.merges >= 1
    /\ MirrorV(last.old_grid) /= last.old_grid
    /\ last.new_grid /= MirrorV(last.new_grid)
    /\ MirrorsAgree

(***************************************************************************)
(* C36  After move(d) returned True and finalize_move ran, every line of   *)
(* the board is packed toward d: along each row (left, right) or column    *)
(* (up, down) no empty cell lies between the destination edge and a tile.  *)
(***************************************************************************)
\* A line, read from the destination edge, without an empty cell before a tile.
NoGapLine(s) == \A i \in 1 .. 3 : s[i] = 0 => s[i + 1] = 0

C36_LinesPackedAfterFinalize ==
    FinalizedAfterMove =>
        \A n \in 0 .. 3 :
            NoGapLine(TraversalLine(ValueGridOf(tiles, heap), last.prev.direction, n))

\* The case: a finalized move toward the far edge of a line that had a gap between
\* that edge and a tile and lost a tile to a merge.
C36_Witness ==
    /\ FinalizedAfterMove
    /\ last.prev.direction \in {"right", "down"}
    /\ last.prev.merges >= 1
    /\ \E n \in 0 .. 3 :
           /\ ~NoGapLine(TraversalLine(last.prev.old_grid, last.prev.direction, n))
           /\ Len(NonZero(TraversalLine(ValueGridOf(tiles, heap), last.prev.direction, n))) = 2
           /\ NoGapLine(TraversalLine(ValueGridOf(tiles, heap), last.prev.direction, n))

(***************************************************************************)
(* C37  In the game loop a direction key calls board.move only when        *)
(* ANIMATING, game_over and start_screen are all False; ANIMATING is True  *)
(* while the move runs and False again when the handling of the key ends,  *)
(* whether the move returned True or False, so no key is ever handled      *)
(* while ANIMATING is True.                                                *)
(***************************************************************************)
C37_KeysPlayOnlyWhenIdle ==
    [][KeyStep =>
          /\ last'.played <=> (~main.ANIMATING /\ ~main.game_over /\ ~main.start_screen)
          /\ last'.played => last'.at_move.ANIMATING
          /\ ~main.ANIMATING
          /\ ~main'.ANIMATING]_vars

\* The case: the second key of a game reached board.move, which returned False.
C37_Witness ==
    /\ last.op = "keydown"
    /\ calls = 2
    /\ last.played
    /\ ~last.moved
    /\ last.at_move.ANIMATING
    /\ ~main.ANIMATING
    /\ ~main.game_over

(***************************************************************************)
(* C38  ScoreManager.update_best_score returns True and stores the new     *)
(* score exactly when current_score is strictly greater than the stored    *)
(* best; otherwise it returns False and changes nothing.  So the best      *)
(* score never decreases, and after any sequence of calls it equals the    *)
(* maximum of the best score loaded at first and all the scores passed in. *)
(***************************************************************************)
\* The step is a call of ScoreManager.update_best_score.
UpdateStep == calls' = calls + 1 /\ last'.op = "update_best_score"

\* The greatest number of a finite non-empty set of numbers.
Greatest(S) == CHOOSE x \in S : \A y \in S : y <= x

C38_BestScoreIsRunningMaximum ==
    [][UpdateStep =>
          /\ last'.ret <=> last'.current_score > score_manager.best_score
          /\ last'.ret => score_manager'.best_score = last'.current_score
          /\ ~last'.ret => score_manager' = score_manager
          /\ score_manager'.best_score >= score_manager.best_score
          /\ last'.best = Greatest({last'.loaded} \cup last'.passed)]_vars

\* The case: after a score above the loaded best was stored, the same score is passed
\* again and is refused.
C38_Witness ==
    /\ last.op = "update_best_score"
    /\ ~last.ret
    /\ last.current_score = score_manager.best_score
    /\ score_manager.best_score > last.loaded
    /\ last.loaded > 0
    /\ Cardinality(last.passed) >= 2

====
